---- MODULE Spec2Model ----
(***************************************************************************)
(* The case-set cache and identifier scheme of the GDC MCP server          *)
(* (src/qag_mcp/server.py, src/qag_mcp/_utils.py, src/qag_mcp/_defines.py).*)
(*                                                                         *)
(* Python strings are sequences of one-character strings, so that          *)
(* formatting and decoding are computed character by character.            *)
(* The cache is a cachetools.TTLCache: an LRU-ordered list of links, each  *)
(* with an absolute expiry time; expired links stay in the list until the  *)
(* next write sweeps them, but no lookup sees them.                        *)
(***************************************************************************)
EXTENDS Integers, Sequences, FiniteSets, TLC

VARIABLES
    case_cache,           \* the TTLCache: sequence of links, least recently used first
    now,                  \* the cache's timer (time.monotonic), in ticks
    use_cohort_copilot,   \* args.use_cohort_copilot: which of project / cohort tool is registered
    last,                 \* the last tool call: its tool, arguments, outcome and upstream traffic
    watch,                \* the identifier whose reads are recorded, fixed at the start (<<>>: none)
    seen,                 \* history: the last read of the watched identifier and what became of it
    probe,                \* input of the identifier codec (template and argument strings)
    run,                  \* a tool call executed statement by statement, the timer running meanwhile
    pager                 \* a gdc_query_all call in progress: its arguments, loop variables and requests

vars == <<case_cache, now, use_cohort_copilot, last, watch, seen, probe, run, pager>>

(***************************************************************************)
(* Bounds of the model.                                                    *)
(***************************************************************************)
MaxTime == 3
\* longest argument string rendered into a template
MaxArgLen == 3

\* TTLCache(maxsize=1000, ttl=3600), scaled down to 3 entries and 2 ticks of the timer.
maxsize == 3
ttl == 2

None == "None"

(***************************************************************************)
(* String literals of the source.                                          *)
(***************************************************************************)
S_Cases_SSM == <<"C","a","s","e","s","-","S","S","M","-">>
S_Cases_CNV == <<"C","a","s","e","s","-","C","N","V","-">>
S_Cases_MSI == <<"C","a","s","e","s","-","M","S","I","-">>
S_Cases_Project == <<"C","a","s","e","s","-","P","r","o","j","e","c","t","-">>
S_Cases_Cohort == <<"C","a","s","e","s","-","C","o","h","o","r","t","-">>
S_Cases_Intersect == <<"C","a","s","e","s","-","I","n","t","e","r","s","e","c","t","-","(">>
S_Cases_Union == <<"C","a","s","e","s","-","U","n","i","o","n","-","(">>
S_AND == <<")","-","A","N","D","-","(">>
S_Dash == <<"-">>
S_Close == <<")">>
S_Braces == {"{", "}"}

\* TOOL_CACHE_ID_TEMPLATES, in dictionary order.
TOOL_CACHE_ID_TEMPLATES == <<
    [name |-> "compute_case_intersection",
     template |-> <<"C","a","s","e","s","-","I","n","t","e","r","s","e","c","t","-","(","{","c","a","s","e","_","s","e","t","_","i","d","_","A","}",")","-","(","{","c","a","s","e","_","s","e","t","_","i","d","_","B","}",")">>],
    [name |-> "compute_case_union",
     template |-> <<"C","a","s","e","s","-","U","n","i","o","n","-","(","{","c","a","s","e","_","s","e","t","_","i","d","_","A","}",")","-","(","{","c","a","s","e","_","s","e","t","_","i","d","_","B","}",")">>],
    [name |-> "get_simple_somatic_mutation_occurrences",
     template |-> <<"C","a","s","e","s","-","S","S","M","-","(","{","g","e","n","e","}",")","-","(","{","a","a","_","c","h","a","n","g","e","}",")">>],
    [name |-> "get_copy_number_variant_occurrences",
     template |-> <<"C","a","s","e","s","-","C","N","V","-","(","{","g","e","n","e","}",")","-","(","{","c","n","v","_","c","h","a","n","g","e","}",")">>],
    [name |-> "get_microsatellite_instability_occurrences",
     template |-> <<"C","a","s","e","s","-","M","S","I","-","(","{","m","s","i","_","s","t","a","t","u","s","}",")">>],
    [name |-> "get_cases_by_project",
     template |-> <<"C","a","s","e","s","-","P","r","o","j","e","c","t","-","(","{","p","r","o","j","e","c","t","}",")">>],
    [name |-> "get_cases_by_cohort_description",
     template |-> <<"C","a","s","e","s","-","C","o","h","o","r","t","-","(","{","c","o","h","o","r","t","_","d","e","s","c","r","i","p","t","i","o","n","}",")">>]
>>

(***************************************************************************)
(* Python string operations.                                               *)
(***************************************************************************)
\* str.startswith
StartsWith(s, p) ==
    /\ Len(p) <= Len(s)
    /\ SubSeq(s, 1, Len(p)) = p

\* s.split(sep)[0]: the text before the first occurrence of sep, or all of s
SplitHead(s, sep) ==
    LET hits == {i \in 1..Len(s) : StartsWith(SubSeq(s, i, Len(s)), sep)}
    IN IF hits = {} THEN s
       ELSE SubSeq(s, 1, (CHOOSE i \in hits : \A j \in hits : i <= j) - 1)

\* s.strip(chars): drop leading and trailing characters that are in chars
Strip(s, chars) ==
    LET keep == {i \in 1..Len(s) : s[i] \notin chars}
    IN IF keep = {} THEN <<>>
       ELSE SubSeq(s, CHOOSE i \in keep : \A j \in keep : i <= j,
                      CHOOSE i \in keep : \A j \in keep : j <= i)

\* sep.join(parts)
RECURSIVE Join(_, _)
Join(parts, sep) ==
    IF Len(parts) = 0 THEN <<>>
    ELSE IF Len(parts) = 1 THEN parts[1]
    ELSE parts[1] \o sep \o Join(Tail(parts), sep)

(***************************************************************************)
(* Decoding an identifier (src/qag_mcp/_utils.py).                         *)
(* A result is [exc |-> "none", val |-> v], or [exc |-> <exception>].      *)
(***************************************************************************)
Return(v) == [exc |-> "none", val |-> v]
Raise(e) == [exc |-> e, val |-> <<>>]

\* an optional argument: None is the empty sequence, a value v is <<v>>
Absent == <<>>
Some(v) == <<v>>

\* a loop that appends the contents of every closed pair, nested ones too
\* (the loop below without its "if len(stack) == 0" test)
RECURSIVE ExtractLoop_EveryPair(_, _, _, _)
ExtractLoop_EveryPair(identifier, i, stack, params) ==
    LET rest == {j \in i..Len(identifier) : identifier[j] \in {"(", ")"}}
    IN IF rest = {}
       THEN IF Len(stack) > 0 THEN Raise("IndexError") ELSE Return(params)
       ELSE LET at == CHOOSE j \in rest : \A m \in rest : j <= m
            IN IF identifier[at] = "("
               THEN ExtractLoop_EveryPair(identifier, at + 1, Append(stack, at), params)
               ELSE IF Len(stack) = 0
               THEN Raise("IndexError")
               ELSE ExtractLoop_EveryPair(identifier, at + 1,
                        SubSeq(stack, 1, Len(stack) - 1),
                        Append(params, SubSeq(identifier, stack[Len(stack)] + 1, at - 1)))

\* the loop of extract_top_level_params from character i on, with its stack and
\* params.  The body acts on "(" and ")" only (_utils.py:57-67), so the loop is
\* taken from one parenthesis to the next: at is the first of them from i on.
RECURSIVE ExtractLoop(_, _, _, _)
ExtractLoop(identifier, i, stack, params) ==
    LET rest == {j \in i..Len(identifier) : identifier[j] \in {"(", ")"}}
    IN IF rest = {}
       THEN IF Len(stack) > 0 THEN Raise("IndexError") ELSE Return(params)
       ELSE LET at == CHOOSE j \in rest : \A m \in rest : j <= m
            IN IF identifier[at] = "("
               THEN ExtractLoop(identifier, at + 1, Append(stack, at), params)
               ELSE IF Len(stack) = 0
               THEN Raise("IndexError")
               ELSE LET opening_idx == stack[Len(stack)]
                        popped == SubSeq(stack, 1, Len(stack) - 1)
                    IN ExtractLoop(identifier, at + 1, popped,
                           IF Len(popped) = 0
                           THEN Append(params, SubSeq(identifier, opening_idx + 1, at - 1))
                           ELSE params)

extract_top_level_params(identifier) == ExtractLoop(identifier, 1, <<>>, <<>>)

\* per template of TOOL_CACHE_ID_TEMPLATES, tabulated once:
\* prefix = template.split("-(")[0] and names = extract_top_level_params(template)
TemplatePrefix == [k \in DOMAIN TOOL_CACHE_ID_TEMPLATES |->
                      SplitHead(TOOL_CACHE_ID_TEMPLATES[k].template, <<"-", "(">>)]
TemplateNames == [k \in DOMAIN TOOL_CACHE_ID_TEMPLATES |->
                     extract_top_level_params(TOOL_CACHE_ID_TEMPLATES[k].template)]

\* a loop that pairs names with segments as far as both go, whatever their numbers
RECURSIVE MatchLoop_Zip(_, _)
MatchLoop_Zip(identifier, k) ==
    IF k > Len(TOOL_CACHE_ID_TEMPLATES)
    THEN Return([found |-> FALSE, tool |-> None, params |-> <<>>])
    ELSE IF StartsWith(identifier, TemplatePrefix[k])
    THEN LET params == extract_top_level_params(identifier)
             names == TemplateNames[k]
         IN IF params.exc # "none" THEN params
            ELSE IF names.exc # "none" THEN names
            ELSE LET n == IF Len(params.val) < Len(names.val)
                          THEN Len(params.val) ELSE Len(names.val)
                 IN Return([found |-> TRUE, tool |-> TOOL_CACHE_ID_TEMPLATES[k].name,
                            params |-> [j \in 1..n |->
                                          <<Strip(names.val[j], S_Braces), params.val[j]>>]])
    ELSE MatchLoop_Zip(identifier, k + 1)

\* the loop of match_template_and_params over templates k, k+1, ...; its only
\* caller passes TOOL_CACHE_ID_TEMPLATES.  The value returned is found = FALSE
\* for None, or the tool name and the (name, value) pairs in template order.
RECURSIVE MatchLoop(_, _)
MatchLoop(identifier, k) ==
    IF k > Len(TOOL_CACHE_ID_TEMPLATES)
    THEN Return([found |-> FALSE, tool |-> None, params |-> <<>>])
    ELSE IF StartsWith(identifier, TemplatePrefix[k])
    THEN LET params == extract_top_level_params(identifier)
             names == TemplateNames[k]
         IN IF params.exc # "none" THEN params
            ELSE IF names.exc # "none" THEN names
            ELSE IF Len(params.val) # Len(names.val) THEN Raise("ValueError")
            ELSE Return([found |-> TRUE, tool |-> TOOL_CACHE_ID_TEMPLATES[k].name,
                         params |-> [j \in 1..Len(names.val) |->
                                       <<Strip(names.val[j], S_Braces), params.val[j]>>]])
    ELSE MatchLoop(identifier, k + 1)

match_template_and_params(identifier) == MatchLoop(identifier, 1)

\* The message of suggest_tool_from_case_set_id: which of its two sentences, and
\* what it interpolates (tool_args is the joined "k=v, k=v" text).
suggest_tool_from_case_set_id(case_set_id) ==
    LET match == match_template_and_params(case_set_id)
    IN IF match.exc # "none" THEN match
       ELSE IF match.val.found
       THEN Return([text |-> "use the following tool",
                    case_set_id |-> case_set_id,
                    tool_name |-> match.val.tool,
                    tool_args |-> Join([j \in 1..Len(match.val.params) |->
                                          match.val.params[j][1] \o <<"=">> \o match.val.params[j][2]],
                                       <<",", " ">>)])
       ELSE Return([text |-> "did not match any known patterns",
                    case_set_id |-> case_set_id,
                    tool_name |-> None,
                    tool_args |-> <<>>])

(***************************************************************************)
(* cachetools.TTLCache, as constructed at server.py:21.  The object holds  *)
(* its maxsize, its ttl and its links; a link is [key, value, expires] and *)
(* the links are in least-recently-used order.  A value is the case set    *)
(* (the tools store list(set) and read it back through set() and len()).   *)
(***************************************************************************)
TTLCache(size, life) == [maxsize |-> size, ttl |-> life, links |-> <<>>]

\* a cache without expiry: every link is visible for ever
Fresh_Always(link, t) == TRUE

\* a link is visible to lookups while timer() < link.expires
Fresh(link, t) == t < link.expires

Keys(c) == {c.links[i].key : i \in 1..Len(c.links)}

IndexOfKey(c, k) == CHOOSE i \in 1..Len(c.links) : c.links[i].key = k

RemoveAt(links, i) == SubSeq(links, 1, i - 1) \o SubSeq(links, i + 1, Len(links))

\* presence decided by the truth of the value: an empty set counts as missing
Contains_NonEmpty(c, t, k) ==
    /\ k \in Keys(c)
    /\ Fresh(c.links[IndexOfKey(c, k)], t)
    /\ c.links[IndexOfKey(c, k)].value # {}

\* TTLCache.__contains__: present and not expired; moves nothing
Contains(c, t, k) ==
    /\ k \in Keys(c)
    /\ Fresh(c.links[IndexOfKey(c, k)], t)

\* the links that are still fresh at t, in order
RECURSIVE FreshLinks(_, _)
FreshLinks(links, t) ==
    IF Len(links) = 0 THEN <<>>
    ELSE IF Fresh(links[1], t) THEN <<links[1]>> \o FreshLinks(Tail(links), t)
    ELSE FreshLinks(Tail(links), t)

\* TTLCache.expire(time): drop every link that is no longer fresh
Expire(c, t) == [c EXCEPT !.links = FreshLinks(c.links, t)]

\* TTLCache.__getitem__: KeyError when missing or expired; a hit moves the
\* link to the most-recently-used end.  Also reports the deadline it saw.
GetItem(c, t, k) ==
    IF k \in Keys(c) /\ Fresh(c.links[IndexOfKey(c, k)], t)
    THEN LET i == IndexOfKey(c, k)
         IN [exc |-> "none", val |-> c.links[i].value, expires |-> c.links[i].expires,
             cache |-> [c EXCEPT !.links = Append(RemoveAt(c.links, i), c.links[i])]]
    ELSE [exc |-> "KeyError", val |-> {}, expires |-> 0, cache |-> c]

\* a store that never makes room
EvictFor_Never(links, size) == links

\* a store that makes room by dropping the most recently used links
RECURSIVE EvictFor_Newest(_, _)
EvictFor_Newest(links, size) ==
    IF Len(links) + 1 > size /\ Len(links) > 0
    THEN EvictFor_Newest(SubSeq(links, 1, Len(links) - 1), size)
    ELSE links

\* Cache.__setitem__'s "while currsize + size > maxsize: popitem()":
\* drop least recently used links until one more fits
RECURSIVE EvictFor(_, _)
EvictFor(links, size) ==
    IF Len(links) + 1 > size /\ Len(links) > 0 THEN EvictFor(Tail(links), size)
    ELSE links

\* TTLCache.__setitem__: expire, make room for a new key, store, and link
\* the key at the most-recently-used end with expires = time + ttl
SetItem(c, t, k, v) ==
    LET swept == Expire(c, t)
        roomy == IF k \in Keys(swept) THEN swept.links ELSE EvictFor(swept.links, c.maxsize)
        at == {i \in 1..Len(roomy) : roomy[i].key = k}
        rest == IF at = {} THEN roomy ELSE RemoveAt(roomy, CHOOSE i \in at : TRUE)
    IN [c EXCEPT !.links = Append(rest, [key |-> k, value |-> v, expires |-> t + c.ttl])]

\* a read that writes nothing back: case_cache[k] alone, which leaves the deadline alone
Refresh_ReadOnly(c, t, k) == GetItem(c, t, k)

\* a refresh that writes an empty list back under the key
Refresh_Reset(c, t, k) ==
    LET got == GetItem(c, t, k)
    IN IF got.exc # "none" THEN got
       ELSE [got EXCEPT !.cache = SetItem(got.cache, t, k, {})]

\* the refresh idiom of the tools: case_cache[k] = case_cache[k]
Refresh(c, t, k) ==
    LET got == GetItem(c, t, k)
    IN IF got.exc # "none" THEN got
       ELSE [got EXCEPT !.cache = SetItem(got.cache, t, k, got.val)]

(***************************************************************************)
(* The tools (src/qag_mcp/server.py).  A tool call runs at one instant t   *)
(* of the cache's timer and yields the cache it leaves and what the caller *)
(* and the upstream saw.                                                   *)
(***************************************************************************)
NoMsg == [text |-> "", case_set_id |-> <<>>, tool_name |-> None, tool_args |-> <<>>]

\* what a tool call did: the cache after it, the exception it raised
\* ("none": it returned), the identifier or count returned, the tool error's
\* message, the upstream endpoints queried in order, the translator calls,
\* the entries it read (with the deadline each had when read) and stored
Outcome(c, exc, ret, count, msg, upstream, translator, reads, stored) ==
    [cache |-> c, exc |-> exc, ret |-> ret, count |-> count, msg |-> msg,
     upstream |-> upstream, translator |-> translator, reads |-> reads, stored |-> stored]

ReadOf(k, got, t) == [id |-> k, expires |-> got.expires, at |-> t]

\* gdc_query_all, with the paging loop collapsed: the reply is the upstream's
\* whole answer, an exception (HTTPError, or KeyError on a malformed body) or
\* the case ids named by the hits
gdc_query_all(endpoint, reply) == reply

\* a hit path that marks the identifier it returns as served from the cache
HitPath_Marked(c, t, cache_id) ==
    LET got == Refresh(c, t, cache_id)
    IN IF got.exc # "none"
       THEN Outcome(c, got.exc, <<>>, -1, NoMsg, <<>>, 0, {}, {})
       ELSE Outcome(got.cache, "none", cache_id \o <<"*">>, -1, NoMsg, <<>>, 0,
                    {ReadOf(cache_id, got, t)}, {})

\* a hit path that asks the upstream all the same before it returns the identifier
HitPath_Requery(c, t, cache_id) ==
    LET got == Refresh(c, t, cache_id)
    IN IF got.exc # "none"
       THEN Outcome(c, got.exc, <<>>, -1, NoMsg, <<>>, 0, {}, {})
       ELSE Outcome(got.cache, "none", cache_id, -1, NoMsg, <<"cases">>, 0,
                    {ReadOf(cache_id, got, t)}, {})

\* "if cache_id in case_cache: case_cache[cache_id] = case_cache[cache_id]; return cache_id"
HitPath(c, t, cache_id) ==
    LET got == Refresh(c, t, cache_id)
    IN IF got.exc # "none"
       THEN Outcome(c, got.exc, <<>>, -1, NoMsg, <<>>, 0, {}, {})
       ELSE Outcome(got.cache, "none", cache_id, -1, NoMsg, <<>>, 0,
                    {ReadOf(cache_id, got, t)}, {})

\* a miss path that reserves the identifier with an empty set before it queries
QueryAndStore_Reserve(c, t, cache_id, endpoint, reply, translator) ==
    LET hits == gdc_query_all(endpoint, reply)
    IN IF hits.exc # "none"
       THEN Outcome(SetItem(c, t, cache_id, {}), hits.exc, <<>>, -1, NoMsg,
                    <<endpoint>>, translator, {}, {})
       ELSE Outcome(SetItem(c, t, cache_id, hits.cases), "none", cache_id, -1, NoMsg,
                    <<endpoint>>, translator, {}, {cache_id})

\* the miss path of a tool with one upstream query: query, then store
QueryAndStore(c, t, cache_id, endpoint, reply, translator) ==
    LET hits == gdc_query_all(endpoint, reply)
    IN IF hits.exc # "none"
       THEN Outcome(c, hits.exc, <<>>, -1, NoMsg, <<endpoint>>, translator, {}, {})
       ELSE Outcome(SetItem(c, t, cache_id, hits.cases), "none", cache_id, -1, NoMsg,
                    <<endpoint>>, translator, {}, {cache_id})

\* server.py:38-40
SSM_cache_id(gene, aa_change) ==
    LET cache_id == S_Cases_SSM \o gene
    IN IF aa_change # Absent THEN cache_id \o S_Dash \o aa_change[1] ELSE cache_id

\* the mutation tool with its second query filtered on the gene once more
get_simple_somatic_mutation_occurrences_ByGene(c, t, gene, aa_change, reply1, reply2) ==
    LET cache_id == SSM_cache_id(gene, aa_change)
        _filters == IF aa_change # Absent
                    THEN [field |-> "gene_aa_change",
                          value |-> {gene \o <<" ">> \o aa_change[1]}]
                    ELSE [field |-> "consequence.transcript.gene.symbol", value |-> {gene}]
    IN IF Contains(c, t, cache_id) THEN HitPath(c, t, cache_id)
       ELSE LET ssms == gdc_query_all("ssms", reply1)
                first == [filters |-> _filters, reply |-> ssms]
            IN IF ssms.exc # "none"
               THEN [exchange |-> <<first>>]
                    @@ Outcome(c, ssms.exc, <<>>, -1, NoMsg, <<"ssms">>, 0, {}, {})
               ELSE LET hits == gdc_query_all("ssm_occurrences", reply2)
                        second == [filters |-> [field |-> "ssm.ssm_id", value |-> {gene}],
                                   reply |-> hits]
                    IN IF hits.exc # "none"
                       THEN [exchange |-> <<first, second>>]
                            @@ Outcome(c, hits.exc, <<>>, -1, NoMsg,
                                       <<"ssms", "ssm_occurrences">>, 0, {}, {})
                       ELSE [exchange |-> <<first, second>>]
                            @@ Outcome(SetItem(c, t, cache_id, hits.cases), "none", cache_id,
                                       -1, NoMsg, <<"ssms", "ssm_occurrences">>, 0, {},
                                       {cache_id})

\* server.py:47-86.  A hit of the first query is named by its ssm_id, a hit of
\* the second by its case_id.
get_simple_somatic_mutation_occurrences(c, t, gene, aa_change, reply1, reply2) ==
    LET cache_id == SSM_cache_id(gene, aa_change)
        _filters == IF aa_change # Absent
                    THEN [field |-> "gene_aa_change",
                          value |-> {gene \o <<" ">> \o aa_change[1]}]
                    ELSE [field |-> "consequence.transcript.gene.symbol", value |-> {gene}]
    IN IF Contains(c, t, cache_id) THEN HitPath(c, t, cache_id)
       ELSE LET ssms == gdc_query_all("ssms", reply1)
                first == [filters |-> _filters, reply |-> ssms]
            IN IF ssms.exc # "none"
               THEN [exchange |-> <<first>>]
                    @@ Outcome(c, ssms.exc, <<>>, -1, NoMsg, <<"ssms">>, 0, {}, {})
               ELSE LET ssm_ids == ssms.cases
                        hits == gdc_query_all("ssm_occurrences", reply2)
                        second == [filters |-> [field |-> "ssm.ssm_id", value |-> ssm_ids],
                                   reply |-> hits]
                    IN IF hits.exc # "none"
                       THEN [exchange |-> <<first, second>>]
                            @@ Outcome(c, hits.exc, <<>>, -1, NoMsg,
                                       <<"ssms", "ssm_occurrences">>, 0, {}, {})
                       ELSE [exchange |-> <<first, second>>]
                            @@ Outcome(SetItem(c, t, cache_id, hits.cases), "none", cache_id,
                                       -1, NoMsg, <<"ssms", "ssm_occurrences">>, 0, {},
                                       {cache_id})

\* server.py:103-105
CNV_cache_id(gene, cnv_change) ==
    LET cache_id == S_Cases_CNV \o gene
    IN IF cnv_change # Absent THEN cache_id \o S_Dash \o cnv_change[1] ELSE cache_id

\* the copy-number tool with the change type remapped before the identifier is built
get_copy_number_variant_occurrences_RemapFirst(c, t, gene, cnv_change, reply) ==
    LET sent == IF cnv_change = Some(<<"heterozygous deletion">>)
                THEN Some(<<"loss">>) ELSE cnv_change
        cache_id == CNV_cache_id(gene, sent)
        ops == <<[field |-> "cnv.consequence.gene.symbol", value |-> {gene}]>>
               \o IF sent # Absent
                  THEN <<[field |-> "cnv.cnv_change_5_category", value |-> {sent[1]}]>>
                  ELSE <<>>
    IN IF Contains(c, t, cache_id) THEN HitPath(c, t, cache_id)
       ELSE [exchange |-> <<[filters |-> [op |-> "and", content |-> ops], reply |-> reply]>>]
            @@ QueryAndStore(c, t, cache_id, "cnv_occurrences", reply, 0)

\* server.py:103-155.  The identifier is built first; 'heterozygous deletion' is
\* remapped to 'loss' after the hit path (115-116) and only the filter sees it.
get_copy_number_variant_occurrences(c, t, gene, cnv_change, reply) ==
    LET cache_id == CNV_cache_id(gene, cnv_change)
        sent == IF cnv_change = Some(<<"heterozygous deletion">>)
                THEN Some(<<"loss">>) ELSE cnv_change
        ops == <<[field |-> "cnv.consequence.gene.symbol", value |-> {gene}]>>
               \o IF sent # Absent
                  THEN <<[field |-> "cnv.cnv_change_5_category", value |-> {sent[1]}]>>
                  ELSE <<>>
    IN IF Contains(c, t, cache_id) THEN HitPath(c, t, cache_id)
       ELSE [exchange |-> <<[filters |-> [op |-> "and", content |-> ops], reply |-> reply]>>]
            @@ QueryAndStore(c, t, cache_id, "cnv_occurrences", reply, 0)

\* server.py:171
MSI_cache_id(msi_status) == S_Cases_MSI \o msi_status

get_microsatellite_instability_occurrences(c, t, msi_status, reply) ==
    LET cache_id == MSI_cache_id(msi_status)
    IN IF Contains(c, t, cache_id) THEN HitPath(c, t, cache_id)
       ELSE QueryAndStore(c, t, cache_id, "files", reply, 0)

\* server.py:215
Project_cache_id(project) == S_Cases_Project \o project

get_cases_by_project(c, t, project, reply) ==
    LET cache_id == Project_cache_id(project)
    IN IF Contains(c, t, cache_id) THEN HitPath(c, t, cache_id)
       ELSE QueryAndStore(c, t, cache_id, "cases", reply, 0)

\* server.py:257
Cohort_cache_id(cohort_description) == S_Cases_Cohort \o cohort_description

\* the cohort tool keeping an empty case set for a description whose filter did not parse
get_cases_by_cohort_description_KeepEmpty(c, t, cohort_description, filter_ok, reply) ==
    LET cache_id == Cohort_cache_id(cohort_description)
    IN IF Contains(c, t, cache_id) THEN HitPath(c, t, cache_id)
       ELSE IF ~filter_ok
       THEN Outcome(SetItem(c, t, cache_id, {}), "JSONDecodeError", <<>>, -1, NoMsg,
                    <<>>, 1, {}, {cache_id})
       ELSE QueryAndStore(c, t, cache_id, "cases", reply, 1)

\* filter_ok: whether json.loads accepts the string generate_filter returned
get_cases_by_cohort_description(c, t, cohort_description, filter_ok, reply) ==
    LET cache_id == Cohort_cache_id(cohort_description)
    IN IF Contains(c, t, cache_id) THEN HitPath(c, t, cache_id)
       ELSE IF ~filter_ok
       THEN Outcome(c, "JSONDecodeError", <<>>, -1, NoMsg, <<>>, 1, {}, {})
       ELSE QueryAndStore(c, t, cache_id, "cases", reply, 1)

\* a lookup that takes a missing identifier for an empty case set: len(case_cache.get(id, []))
NotFound_Empty(c, case_set_id, reads) ==
    Outcome(c, "none", <<>>, 0, NoMsg, <<>>, 0, reads, {})

\* a failed lookup that leaves an empty case set under the identifier it was given
NotFound_Insert(c, case_set_id, reads) ==
    Outcome(SetItem(c, now, case_set_id, {}), "ToolError", <<>>, -1,
            [NoMsg EXCEPT !.case_set_id = case_set_id], <<>>, 0, reads, {})

\* the ToolError raised for an identifier that is not in the cache; building its
\* message calls suggest_tool_from_case_set_id, whose exception escapes instead.
\* The ValueError of _utils.py:43-47 quotes the identifier in its text; the
\* IndexErrors of _utils.py:60 and 67 quote a position only.
NotFound(c, case_set_id, reads) ==
    LET hint == suggest_tool_from_case_set_id(case_set_id)
    IN IF hint.exc = "ValueError"
       THEN Outcome(c, hint.exc, <<>>, -1,
                    [NoMsg EXCEPT !.text = "does not match the number of parameters",
                                  !.case_set_id = case_set_id],
                    <<>>, 0, reads, {})
       ELSE IF hint.exc # "none"
       THEN Outcome(c, hint.exc, <<>>, -1, NoMsg, <<>>, 0, reads, {})
       ELSE Outcome(c, "ToolError", <<>>, -1, hint.val, <<>>, 0, reads, {})

\* server.py:295 and server.py:333
Intersect_cache_id(case_set_id_A, case_set_id_B) ==
    S_Cases_Intersect \o case_set_id_A \o S_AND \o case_set_id_B \o S_Close

Union_cache_id(case_set_id_A, case_set_id_B) ==
    S_Cases_Union \o case_set_id_A \o S_AND \o case_set_id_B \o S_Close

\* the first operand alone in place of the set operation
Combine_Left(op, cases_A, cases_B) == cases_A

\* a set difference in place of the set operation
Combine_Difference(op, cases_A, cases_B) == cases_A \ cases_B

\* the two set operations taken for one another
Combine_Swapped(op, cases_A, cases_B) ==
    IF op = "and" THEN cases_A \cup cases_B ELSE cases_A \cap cases_B

\* "A_and_B = cases_A & cases_B" (server.py:314) and "cases_A | cases_B" (server.py:352)
Combine(op, cases_A, cases_B) ==
    IF op = "and" THEN cases_A \cap cases_B ELSE cases_A \cup cases_B

\* the shared body of compute_case_intersection and compute_case_union
\* (server.py:297-317, 335-355); op is "and" or "or"
SetOperation(c, t, cache_id, case_set_id_A, case_set_id_B, op) ==
    IF Contains(c, t, cache_id) THEN HitPath(c, t, cache_id)
    ELSE IF ~Contains(c, t, case_set_id_A) THEN NotFound(c, case_set_id_A, {})
    ELSE LET rA == Refresh(c, t, case_set_id_A)
             readA == {ReadOf(case_set_id_A, rA, t)}
         IN IF rA.exc # "none" THEN Outcome(c, rA.exc, <<>>, -1, NoMsg, <<>>, 0, {}, {})
            ELSE IF ~Contains(rA.cache, t, case_set_id_B)
            THEN NotFound(rA.cache, case_set_id_B, readA)
            ELSE LET rB == Refresh(rA.cache, t, case_set_id_B)
                     readAB == readA \cup {ReadOf(case_set_id_B, rB, t)}
                 IN IF rB.exc # "none"
                    THEN Outcome(rA.cache, rB.exc, <<>>, -1, NoMsg, <<>>, 0, readA, {})
                    ELSE LET gA == GetItem(rB.cache, t, case_set_id_A)
                             gB == GetItem(gA.cache, t, case_set_id_B)
                             reads == readAB \cup {ReadOf(case_set_id_A, gA, t),
                                                   ReadOf(case_set_id_B, gB, t)}
                         IN IF gA.exc # "none"
                            THEN Outcome(rB.cache, gA.exc, <<>>, -1, NoMsg, <<>>, 0, readAB, {})
                            ELSE IF gB.exc # "none"
                            THEN Outcome(gA.cache, gB.exc, <<>>, -1, NoMsg, <<>>, 0, readAB, {})
                            ELSE LET A_and_B == Combine(op, gA.val, gB.val)
                                 IN Outcome(SetItem(gB.cache, t, cache_id, A_and_B), "none",
                                            cache_id, -1, NoMsg, <<>>, 0, reads, {cache_id})

compute_case_intersection(c, t, case_set_id_A, case_set_id_B) ==
    SetOperation(c, t, Intersect_cache_id(case_set_id_A, case_set_id_B),
                 case_set_id_A, case_set_id_B, "and")

compute_case_union(c, t, case_set_id_A, case_set_id_B) ==
    SetOperation(c, t, Union_cache_id(case_set_id_A, case_set_id_B),
                 case_set_id_A, case_set_id_B, "or")

\* server.py:370-379
get_case_set_size(c, t, case_set_id) ==
    IF ~Contains(c, t, case_set_id) THEN NotFound(c, case_set_id, {})
    ELSE LET r == Refresh(c, t, case_set_id)
         IN IF r.exc # "none" THEN Outcome(c, r.exc, <<>>, -1, NoMsg, <<>>, 0, {}, {})
            ELSE LET g == GetItem(r.cache, t, case_set_id)
                 IN IF g.exc # "none"
                    THEN Outcome(r.cache, g.exc, <<>>, -1, NoMsg, <<>>, 0,
                                 {ReadOf(case_set_id, r, t)}, {})
                    ELSE Outcome(g.cache, "none", <<>>, Cardinality(g.val), NoMsg, <<>>, 0,
                                 {ReadOf(case_set_id, r, t), ReadOf(case_set_id, g, t)}, {})

(***************************************************************************)
(* The calls the model makes: argument strings chosen so that one gene     *)
(* contains the separator, and identifiers a caller may type by hand.      *)
(***************************************************************************)
GeneA == <<"A">>
GeneAB == <<"A","-","B">>

SSMArgs == {<<GeneA, Absent>>, <<GeneAB, Absent>>, <<GeneA, Some(<<"B">>)>>}
CNVArgs == {<<GeneA, Absent>>}
MSIArgs == {<<<<"m","s","i">>>>}
ProjectArgs == {<<<<"P">>>>}
CohortArgs == {<<<<"D">>>>}

\* an identifier no tool returns and no template prefix starts
IdUnknown == <<"X">>
\* an identifier no tool returns that begins like the identifiers but starts no template
IdNearMiss == <<"C","a","s","e","s","-","X">>
\* an identifier no tool returns (the tools write -AND- between the segments)
IdHandTyped == S_Cases_Intersect \o IdUnknown \o <<")","-","(">> \o IdUnknown \o S_Close

IdSSM_A == SSM_cache_id(GeneA, Absent)
IdSSM_AB == SSM_cache_id(GeneAB, Absent)
\* the identifier of an intersection cut short after its first segment's text
IdUnclosed == S_Cases_Intersect \o IdSSM_A

\* argument pairs of compute_case_intersection and compute_case_union
IntersectionArgs == {<<IdSSM_A, IdSSM_AB>>, <<IdSSM_A, IdUnknown>>, <<IdUnknown, IdSSM_A>>,
                     <<IdSSM_A, IdUnclosed>>}
UnionArgs == {<<IdSSM_A, IdSSM_AB>>}
\* identifiers passed to get_case_set_size
SizeIds == {IdSSM_A, IdSSM_AB, IdUnknown, IdNearMiss, IdHandTyped,
            Intersect_cache_id(IdSSM_A, IdSSM_AB)}

\* what the upstream answers to one gdc_query_all: a failed request, or hits
\* naming a set of cases
Replies == {[exc |-> "HTTPError", cases |-> {}]}
           \cup {[exc |-> "none", cases |-> S] : S \in {{"c1"}}}

\* no reply is drawn for a call that finds its identifier cached: it asks nothing
NoReply == [exc |-> "none", cases |-> {}]
RepliesFor(cache_id) == IF Contains(case_cache, now, cache_id) THEN {NoReply} ELSE Replies

ProducingTools == {"get_simple_somatic_mutation_occurrences",
                   "get_copy_number_variant_occurrences",
                   "get_microsatellite_instability_occurrences",
                   "get_cases_by_project", "get_cases_by_cohort_description",
                   "compute_case_intersection", "compute_case_union"}

SetTools == {"compute_case_intersection", "compute_case_union"}

PrimitiveTools == ProducingTools \ SetTools

(***************************************************************************)
(* The state machine.                                                      *)
(***************************************************************************)
Idle == [tool |-> "none", args |-> <<>>, exc |-> "none", ret |-> <<>>, count |-> -1,
         msg |-> NoMsg, upstream |-> <<>>, translator |-> 0, reads |-> {},
         repeat |-> FALSE, prior |-> <<>>, absent |-> {}, lapsed |-> {},
         cache_id |-> <<>>, cached |-> FALSE, stale |-> FALSE,
         unchanged |-> TRUE, full |-> FALSE, exchange |-> <<>>]

NoProbe == [k |-> 0, args |-> <<>>, done |-> FALSE, result |-> Return(<<>>)]

SizeTool == "get_case_set_size"

\* no call is being executed statement by statement
NoRun == [tool |-> "none", args |-> <<>>, ops |-> <<>>, held |-> {}, vals |-> <<>>,
          began_with |-> {}, observed |-> {}, refreshed |-> {}, stored |-> {},
          hit |-> FALSE, done |-> FALSE, exc |-> "none", ret |-> <<>>, count |-> -1]

\* no gdc_query_all call is in progress
NoPager == [status |-> "idle", filters |-> "none", page_size |-> 0, total |-> 0,
            offset |-> 0, all_hits |-> <<>>, requests |-> <<>>, served |-> <<>>,
            printed |-> <<>>, exc |-> "none", result |-> <<>>, case_ids |-> <<>>]

\* no read of the watched identifier is on record
Unseen == [read |-> -1, was |-> -1, evicted |-> FALSE]

\* the deadline the watched identifier had when the call first read it
DeadlineSeen(r) ==
    LET mine == {x.expires : x \in {y \in r.reads : y.id = watch}}
    IN CHOOSE e \in mine : \A f \in mine : e <= f

\* the record of the watched identifier after a call that did r: a store
\* starts a new entry, a read is recorded with the deadline it saw, and an
\* entry that was retrievable and is no longer is marked evicted
Seen(r) ==
    IF watch \in r.stored THEN Unseen
    ELSE IF watch \in {x.id : x \in r.reads}
    THEN [read |-> now, was |-> DeadlineSeen(r), evicted |-> ~Contains(r.cache, now, watch)]
    ELSE IF seen.read >= 0 /\ Contains(case_cache, now, watch) /\ ~Contains(r.cache, now, watch)
    THEN [seen EXCEPT !.evicted = TRUE]
    ELSE seen

\* a call of tool with args that did r; cache_id is the identifier the tool
\* computes for them (none for get_case_set_size) and inputs are the
\* identifiers the call names
Step(tool, args, cache_id, inputs, r) ==
    LET absent == {k \in inputs : ~Contains(case_cache, now, k)}
        \* the call before this one, with no tick between, was the same call and returned
        repeat == last.tool = tool /\ last.args = args /\ last.exc = "none"
    IN /\ case_cache' = r.cache
       /\ last' = [tool |-> tool, args |-> args, exc |-> r.exc, ret |-> r.ret,
                   count |-> r.count, msg |-> r.msg, upstream |-> r.upstream,
                   translator |-> r.translator, reads |-> r.reads,
                   repeat |-> repeat,
                   prior |-> IF repeat THEN last.ret ELSE <<>>,
                   absent |-> absent,
                   lapsed |-> absent \cap Keys(case_cache),
                   cache_id |-> cache_id,
                   cached |-> Contains(case_cache, now, cache_id),
                   stale |-> cache_id \in Keys(case_cache)
                             /\ ~Contains(case_cache, now, cache_id),
                   \* the call left every entry, value, deadline and order as it was
                   unchanged |-> r.cache = case_cache,
                   \* the call found maxsize retrievable entries
                   full |-> Len(FreshLinks(case_cache.links, now)) = case_cache.maxsize,
                   \* the filters sent to the upstream with what it answered, in
                   \* order, for the tools that record them
                   exchange |-> IF "exchange" \in DOMAIN r THEN r.exchange ELSE <<>>]
       /\ seen' = Seen(r)
       /\ UNCHANGED <<now, use_cohort_copilot, watch, probe, run, pager>>

Init ==
    /\ case_cache = TTLCache(maxsize, ttl)
    /\ now = 0
    /\ use_cohort_copilot \in BOOLEAN
    /\ last = Idle
    /\ watch = <<>>
    /\ seen = Unseen
    /\ probe = NoProbe
    /\ run = NoRun
    /\ pager = NoPager

CallSSM ==
    \E a \in SSMArgs :
        \E reply1 \in RepliesFor(SSM_cache_id(a[1], a[2])),
           reply2 \in RepliesFor(SSM_cache_id(a[1], a[2])) :
            Step("get_simple_somatic_mutation_occurrences", a, SSM_cache_id(a[1], a[2]), {},
                 get_simple_somatic_mutation_occurrences(case_cache, now, a[1], a[2],
                                                         reply1, reply2))

CallCNV ==
    \E a \in CNVArgs :
        \E reply \in RepliesFor(CNV_cache_id(a[1], a[2])) :
            Step("get_copy_number_variant_occurrences", a, CNV_cache_id(a[1], a[2]), {},
                 get_copy_number_variant_occurrences(case_cache, now, a[1], a[2], reply))

CallMSI ==
    \E a \in MSIArgs :
        \E reply \in RepliesFor(MSI_cache_id(a[1])) :
            Step("get_microsatellite_instability_occurrences", a, MSI_cache_id(a[1]), {},
                 get_microsatellite_instability_occurrences(case_cache, now, a[1], reply))

\* registered when the server runs without --use-cohort-copilot (server.py:427-428)
CallProject ==
    /\ ~use_cohort_copilot
    /\ \E a \in ProjectArgs :
        \E reply \in RepliesFor(Project_cache_id(a[1])) :
            Step("get_cases_by_project", a, Project_cache_id(a[1]), {},
                 get_cases_by_project(case_cache, now, a[1], reply))

\* registered when the server runs with --use-cohort-copilot (server.py:421-426)
CallCohort ==
    /\ use_cohort_copilot
    /\ \E a \in CohortArgs, filter_ok \in BOOLEAN :
        \E reply \in RepliesFor(Cohort_cache_id(a[1])) :
            Step("get_cases_by_cohort_description", a, Cohort_cache_id(a[1]), {},
                 get_cases_by_cohort_description(case_cache, now, a[1], filter_ok, reply))

CallIntersection ==
    \E a \in IntersectionArgs :
        Step("compute_case_intersection", a, Intersect_cache_id(a[1], a[2]), {a[1], a[2]},
             compute_case_intersection(case_cache, now, a[1], a[2]))

CallUnion ==
    \E a \in UnionArgs :
        Step("compute_case_union", a, Union_cache_id(a[1], a[2]), {a[1], a[2]},
             compute_case_union(case_cache, now, a[1], a[2]))

CallSize ==
    \E id \in SizeIds :
        Step("get_case_set_size", <<id>>, <<>>, {id},
             get_case_set_size(case_cache, now, id))

\* the timer advances between calls
Tick ==
    /\ now < MaxTime
    /\ now' = now + 1
    /\ last' = Idle
    /\ seen' = IF seen.read >= 0 /\ now + 1 >= seen.read + case_cache.ttl THEN Unseen ELSE seen
    /\ UNCHANGED <<case_cache, use_cohort_copilot, watch, probe, run, pager>>

Next ==
    \/ CallSSM
    \/ CallCNV
    \/ CallMSI
    \/ CallProject
    \/ CallCohort
    \/ CallIntersection
    \/ CallUnion
    \/ CallSize
    \/ Tick

Spec == Init /\ [][Next]_vars

\* the same machine with the reads of one identifier on record
InitWatch ==
    /\ case_cache = TTLCache(maxsize, ttl)
    /\ now = 0
    /\ use_cohort_copilot = FALSE
    /\ last = Idle
    /\ watch \in {IdSSM_A}
    /\ seen = Unseen
    /\ probe = NoProbe
    /\ run = NoRun
    /\ pager = NoPager

\* sessions that only query and measure: the five primitive tools and the size tool
NextQueries ==
    \/ CallSSM
    \/ CallCNV
    \/ CallMSI
    \/ CallProject
    \/ CallCohort
    \/ CallSize
    \/ Tick

SpecQueries == Init /\ [][NextQueries]_vars

\* sessions that combine mutation case sets: one primitive tool, the set
\* operations and the size tool
NextSets ==
    \/ CallSSM
    \/ CallIntersection
    \/ CallUnion
    \/ CallSize
    \/ Tick

SpecSets == Init /\ [][NextSets]_vars

\* sessions that fill the cache while they read one entry: three primitive
\* tools, the intersection and the size tool
NextRefresh ==
    \/ CallSSM
    \/ CallCNV
    \/ CallMSI
    \/ CallIntersection
    \/ CallSize
    \/ Tick

SpecRefresh == InitWatch /\ [][NextRefresh]_vars

(***************************************************************************)
(* The identifier codec on its own: a template of TOOL_CACHE_ID_TEMPLATES  *)
(* is rendered with argument strings and the result is decoded.            *)
(***************************************************************************)
\* template.format(**args) with the arguments given in template order: the text
\* of the template from character i on, each replacement field {name} replaced
\* by the next argument
RECURSIVE FormatLoop(_, _, _)
FormatLoop(template, i, args) ==
    IF i > Len(template) THEN <<>>
    ELSE IF template[i] = "{"
    THEN LET close == CHOOSE j \in i..Len(template) :
                          /\ template[j] = "}"
                          /\ \A m \in i..(j - 1) : template[m] # "}"
         IN Head(args) \o FormatLoop(template, close + 1, Tail(args))
    ELSE <<template[i]>> \o FormatLoop(template, i + 1, args)

Format(template, args) == FormatLoop(template, 1, args)

\* the names of the replacement fields of a template, in order
RECURSIVE FieldsLoop(_, _)
FieldsLoop(template, i) ==
    IF i > Len(template) THEN <<>>
    ELSE IF template[i] = "{"
    THEN LET close == CHOOSE j \in i..Len(template) :
                          /\ template[j] = "}"
                          /\ \A m \in i..(j - 1) : template[m] # "}"
         IN <<SubSeq(template, i + 1, close - 1)>> \o FieldsLoop(template, close + 1)
    ELSE FieldsLoop(template, i + 1)

TemplateFields == [k \in DOMAIN TOOL_CACHE_ID_TEMPLATES |->
                      FieldsLoop(TOOL_CACHE_ID_TEMPLATES[k].template, 1)]

\* argument strings: text, the separator and parentheses
Alphabet == {"a", "-", "(", ")"}

\* every closing parenthesis closes an earlier opening one, and none stays open
Balanced(s) ==
    LET Count(i, ch) == Cardinality({j \in 1..i : s[j] = ch})
    IN /\ \A i \in 1..Len(s) : Count(i, ")") <= Count(i, "(")
       /\ Count(Len(s), ")") = Count(Len(s), "(")

ArgStrings == {s \in UNION {[1..n -> Alphabet] : n \in 0..MaxArgLen} : Balanced(s)}

\* a template and one argument string for each of its fields, not yet decoded
Probes == UNION {{[k |-> k, args |-> a, done |-> FALSE, result |-> Return(<<>>)] :
                     a \in [1..Len(TemplateFields[k]) -> ArgStrings]} :
                 k \in DOMAIN TOOL_CACHE_ID_TEMPLATES}

InitCodec ==
    /\ case_cache = TTLCache(maxsize, ttl)
    /\ now = 0
    /\ use_cohort_copilot = FALSE
    /\ last = Idle
    /\ watch = <<>>
    /\ seen = Unseen
    /\ probe \in Probes
    /\ run = NoRun
    /\ pager = NoPager

\* render the probe's template with its arguments and decode the identifier
Decode ==
    /\ probe.k # 0
    /\ ~probe.done
    /\ probe' = [probe EXCEPT
                   !.done = TRUE,
                   !.result = match_template_and_params(
                                  Format(TOOL_CACHE_ID_TEMPLATES[probe.k].template, probe.args))]
    /\ UNCHANGED <<case_cache, now, use_cohort_copilot, last, watch, seen, run, pager>>

NextCodec == Decode

SpecCodec == InitCodec /\ [][NextCodec]_vars

(***************************************************************************)
(* The decoder on identifiers as a caller may type them: a template prefix *)
(* followed by any text, parentheses balanced or not, and the identifier   *)
(* of an intersection of two intersections as the tools build it.          *)
(***************************************************************************)
MaxRawLen == 5

RawIdentifiers ==
    [k \in DOMAIN TOOL_CACHE_ID_TEMPLATES |->
        {TemplatePrefix[k] \o s : s \in UNION {[1..n -> Alphabet] : n \in 0..MaxRawLen}}
        \cup (IF TOOL_CACHE_ID_TEMPLATES[k].name = "compute_case_intersection"
              THEN {Intersect_cache_id(Intersect_cache_id(IdUnknown, GeneA),
                                       Intersect_cache_id(GeneA, IdUnknown))}
              ELSE {})]

InitRaw ==
    /\ case_cache = TTLCache(maxsize, ttl)
    /\ now = 0
    /\ use_cohort_copilot = FALSE
    /\ last = Idle
    /\ watch = <<>>
    /\ seen = Unseen
    /\ probe \in UNION {{[k |-> k, args |-> <<id>>, done |-> FALSE,
                          result |-> Return(<<>>), segments |-> Return(<<>>)] :
                            id \in RawIdentifiers[k]} : k \in DOMAIN TOOL_CACHE_ID_TEMPLATES}
    /\ run = NoRun
    /\ pager = NoPager

\* decode the identifier of the probe, and split it into its segments
DecodeRaw ==
    /\ probe.k # 0
    /\ ~probe.done
    /\ probe' = [probe EXCEPT
                   !.done = TRUE,
                   !.result = match_template_and_params(probe.args[1]),
                   !.segments = extract_top_level_params(probe.args[1])]
    /\ UNCHANGED <<case_cache, now, use_cohort_copilot, last, watch, seen, run, pager>>

SpecRaw == InitRaw /\ [][DecodeRaw]_vars

(***************************************************************************)
(* A tool call statement by statement.  The tools are plain functions, so  *)
(* no other call runs between two statements of one call; the cache's      *)
(* timer (time.monotonic) does advance between them.  Each cache access of *)
(* the source is one operation: "check" is `id not in case_cache`, "get"   *)
(* and "set" are the two halves of case_cache[id] = case_cache[id], "read" *)
(* and "len" read case_cache[id], "store" writes the derived entry.        *)
(***************************************************************************)
Op(op, key) == [op |-> op, key |-> key]

\* get_case_set_size, server.py:370-379
SizeProgram(case_set_id) ==
    <<Op("check", case_set_id), Op("get", case_set_id), Op("set", case_set_id),
      Op("len", case_set_id)>>

\* compute_case_intersection / compute_case_union, server.py:298-317 and 336-355
SetProgram(cache_id, case_set_id_A, case_set_id_B) ==
    <<Op("hit", cache_id),
      Op("check", case_set_id_A), Op("get", case_set_id_A), Op("set", case_set_id_A),
      Op("check", case_set_id_B), Op("get", case_set_id_B), Op("set", case_set_id_B),
      Op("read", case_set_id_A), Op("read", case_set_id_B),
      Op("store", cache_id)>>

\* "if cache_id in case_cache: case_cache[cache_id] = case_cache[cache_id]; return cache_id"
HitProgram(cache_id) ==
    <<Op("get", cache_id), Op("set", cache_id), Op("ret", cache_id)>>

\* the call ends by raising e
Fail(r, e) == [r EXCEPT !.done = TRUE, !.exc = e, !.ops = <<>>]

\* the next operation of the call r on cache c at time t: the call and the cache after it
Execute(r, c, t) ==
    LET o == Head(r.ops)
        rest == Tail(r.ops)
        got == GetItem(c, t, o.key)
    IN CASE o.op = "hit" ->
              IF Contains(c, t, o.key)
              THEN [run |-> [r EXCEPT !.ops = HitProgram(o.key), !.hit = TRUE,
                                      !.observed = @ \cup {o.key}],
                    cache |-> c]
              ELSE [run |-> [r EXCEPT !.ops = rest], cache |-> c]
         [] o.op = "check" ->
              IF Contains(c, t, o.key)
              THEN [run |-> [r EXCEPT !.ops = rest, !.observed = @ \cup {o.key}], cache |-> c]
              ELSE [run |-> Fail(r, NotFound(c, o.key, {}).exc), cache |-> c]
         [] o.op = "get" ->
              IF got.exc # "none" THEN [run |-> Fail(r, got.exc), cache |-> c]
              ELSE [run |-> [r EXCEPT !.ops = rest, !.held = got.val], cache |-> got.cache]
         [] o.op = "set" ->
              [run |-> [r EXCEPT !.ops = rest, !.refreshed = @ \cup {o.key}],
               cache |-> SetItem(c, t, o.key, r.held)]
         [] o.op = "read" ->
              IF got.exc # "none" THEN [run |-> Fail(r, got.exc), cache |-> c]
              ELSE [run |-> [r EXCEPT !.ops = rest, !.vals = Append(@, got.val)],
                    cache |-> got.cache]
         [] o.op = "len" ->
              IF got.exc # "none" THEN [run |-> Fail(r, got.exc), cache |-> c]
              ELSE [run |-> [r EXCEPT !.ops = <<>>, !.done = TRUE,
                                      !.count = Cardinality(got.val)],
                    cache |-> got.cache]
         [] o.op = "store" ->
              LET A_and_B == Combine(IF r.tool = "compute_case_intersection"
                                     THEN "and" ELSE "or", r.vals[1], r.vals[2])
              IN [run |-> [r EXCEPT !.ops = <<>>, !.done = TRUE, !.ret = o.key,
                                    !.stored = {o.key}],
                  cache |-> SetItem(c, t, o.key, A_and_B)]
         [] o.op = "ret" ->
              [run |-> [r EXCEPT !.ops = <<>>, !.done = TRUE, !.ret = o.key], cache |-> c]

\* a call of tool with args starts; inputs are the identifiers it names
Begin(tool, args, inputs, program) ==
    /\ run.tool = "none" \/ run.done
    /\ run' = [NoRun EXCEPT !.tool = tool, !.args = args, !.ops = program,
                            !.began_with = {k \in inputs : Contains(case_cache, now, k)}]
    /\ UNCHANGED <<case_cache, now, use_cohort_copilot, last, watch, seen, probe, pager>>

\* argument pairs of the set tools when they are executed statement by statement
StepPairs == {<<IdSSM_A, IdSSM_AB>>}

BeginSize ==
    \E id \in {IdSSM_A} : Begin(SizeTool, <<id>>, {id}, SizeProgram(id))

BeginIntersection ==
    \E a \in StepPairs :
        Begin("compute_case_intersection", a, {a[1], a[2]},
              SetProgram(Intersect_cache_id(a[1], a[2]), a[1], a[2]))

BeginUnion ==
    \E a \in StepPairs :
        Begin("compute_case_union", a, {a[1], a[2]},
              SetProgram(Union_cache_id(a[1], a[2]), a[1], a[2]))

\* the call in progress executes its next cache operation
Advance ==
    /\ run.tool # "none"
    /\ ~run.done
    /\ LET e == Execute(run, case_cache, now)
       IN /\ run' = e.run
          /\ case_cache' = e.cache
    /\ UNCHANGED <<now, use_cohort_copilot, last, watch, seen, probe, pager>>

\* a whole call of the SSM tool, while no call is in progress
PopulateSSM ==
    /\ run.tool = "none" \/ run.done
    /\ CallSSM

NextSteps ==
    \/ PopulateSSM
    \/ BeginSize
    \/ BeginIntersection
    \/ BeginUnion
    \/ Advance
    \/ Tick

SpecSteps == Init /\ [][NextSteps]_vars

(***************************************************************************)
(* Sessions that combine two mutation case sets in every order, with an    *)
(* upstream that may name any set of cases, the empty one too, and may     *)
(* answer the same query differently at different times.                   *)
(***************************************************************************)
AlgebraCases == {"c1", "c2"}

\* what the upstream answers: hits naming any set of cases
AnyReplies == {[exc |-> "none", cases |-> S] : S \in SUBSET AlgebraCases}

AnyRepliesFor(cache_id) ==
    IF Contains(case_cache, now, cache_id) THEN {NoReply} ELSE AnyReplies

AlgebraSSMArgs == {<<GeneA, Absent>>, <<GeneAB, Absent>>}

CallSSMAny ==
    \E a \in AlgebraSSMArgs :
        \* the first query finds both mutations; the second names any set of cases
        \E reply1 \in IF Contains(case_cache, now, SSM_cache_id(a[1], a[2]))
                       THEN {NoReply}
                       ELSE {[exc |-> "none", cases |-> AlgebraCases]},
           reply2 \in AnyRepliesFor(SSM_cache_id(a[1], a[2])) :
            Step("get_simple_somatic_mutation_occurrences", a, SSM_cache_id(a[1], a[2]), {},
                 get_simple_somatic_mutation_occurrences(case_cache, now, a[1], a[2],
                                                         reply1, reply2))

CallIntersectionAny ==
    \E a \in {IdSSM_A, IdSSM_AB} \X {IdSSM_A, IdSSM_AB} :
        Step("compute_case_intersection", a, Intersect_cache_id(a[1], a[2]), {a[1], a[2]},
             compute_case_intersection(case_cache, now, a[1], a[2]))

CallUnionAny ==
    \E a \in {<<IdSSM_A, IdSSM_AB>>, <<IdSSM_A, IdSSM_A>>} :
        Step("compute_case_union", a, Union_cache_id(a[1], a[2]), {a[1], a[2]},
             compute_case_union(case_cache, now, a[1], a[2]))

CallSizeAny ==
    \E id \in {IdSSM_A, IdSSM_AB} :
        Step(SizeTool, <<id>>, <<>>, {id}, get_case_set_size(case_cache, now, id))

NextAlgebra ==
    \/ CallSSMAny
    \/ CallIntersectionAny
    \/ CallUnionAny
    \/ CallSizeAny

\* the server started without --use-cohort-copilot, no identifier watched
InitAlgebra == Init /\ use_cohort_copilot = FALSE

SpecAlgebra == InitAlgebra /\ [][NextAlgebra]_vars

\* sessions in which case sets expire and are queried again with any answer
\* while intersections and unions of them are kept
NextDerived ==
    \/ CallSSMAny
    \/ CallIntersection
    \/ CallUnion
    \/ Tick

SpecDerived == InitAlgebra /\ [][NextDerived]_vars

\* the case set stored under k
ValueOf(c, k) == c.links[IndexOfKey(c, k)].value

\* the set tool named tool, called on cache c at time t
SetToolCall(tool, c, t, case_set_id_A, case_set_id_B) ==
    IF tool = "compute_case_intersection"
    THEN compute_case_intersection(c, t, case_set_id_A, case_set_id_B)
    ELSE compute_case_union(c, t, case_set_id_A, case_set_id_B)

\* what get_case_set_size returns for k in the present state (-1: it raises)
SizeNow(k) == get_case_set_size(case_cache, now, k).count

\* the identifier a producing tool builds from its arguments
CacheIdOf(tool, args) ==
    CASE tool = "get_simple_somatic_mutation_occurrences" -> SSM_cache_id(args[1], args[2])
      [] tool = "get_copy_number_variant_occurrences" -> CNV_cache_id(args[1], args[2])
      [] tool = "get_microsatellite_instability_occurrences" -> MSI_cache_id(args[1])
      [] tool = "get_cases_by_project" -> Project_cache_id(args[1])
      [] tool = "get_cases_by_cohort_description" -> Cohort_cache_id(args[1])
      [] tool = "compute_case_intersection" -> Intersect_cache_id(args[1], args[2])
      [] tool = "compute_case_union" -> Union_cache_id(args[1], args[2])

(***************************************************************************)
(* gdc_query_all, one request of its loop at a time.  The upstream reports *)
(* the same total on every page of one query; a page carries hits and      *)
(* warnings, or the request fails, or the body lacks an expected key.      *)
(***************************************************************************)
MaxPageSize == 3
MaxTotal == 4

\* the hits one page may carry, at most page_size of them
PageHits(page_size) ==
    {h \in {<<>>, <<"h1">>, <<"h1", "h2">>} : Len(h) <= page_size}

\* what the upstream answers to one request
PageReplies(page_size) ==
    {[kind |-> "ok", hits |-> h, warnings |-> w] :
        h \in PageHits(page_size), w \in {<<>>, <<"w">>}}
    \cup {[kind |-> k, hits |-> <<>>, warnings |-> <<>>] : k \in {"HTTPError", "KeyError"}}

\* a loop that asks once more when the offset has just reached the total
LoopEnds_Strict(offset, total) == offset > total

\* "if offset >= total: break"
LoopEnds(offset, total) == offset >= total

\* hits of a page that carries warnings left out of the result
Extend_Unwarned(all_hits, reply) ==
    IF reply.warnings # <<>> THEN all_hits ELSE all_hits \o reply.hits

\* "all_hits.extend(hits)"
Extend(all_hits, reply) == all_hits \o reply.hits

\* the call is entered: all_hits = [], offset = 0
StartQuery ==
    /\ pager.status = "idle"
    /\ \E f \in {"f1", "f2"}, S \in 1..MaxPageSize, T \in 0..MaxTotal :
           pager' = [NoPager EXCEPT !.status = "running", !.filters = f,
                                    !.page_size = S, !.total = T]
    /\ UNCHANGED <<case_cache, now, use_cohort_copilot, last, watch, seen, probe, run>>

\* a loop that posts a failed request a second time before it gives up
QueryPage_RetryOnce ==
    /\ pager.status = "running"
    /\ \E reply \in PageReplies(pager.page_size) :
           LET payload == [filters |-> pager.filters, from |-> pager.offset,
                           size |-> pager.page_size]
               asked == [pager EXCEPT !.requests = Append(@, payload)]
           IN IF reply.kind # "ok"
              THEN IF Len(pager.requests) = Len(pager.served)
                   THEN pager' = asked
                   ELSE pager' = [asked EXCEPT !.status = "raised", !.exc = reply.kind]
              ELSE LET offset == pager.offset + pager.page_size
                   IN pager' = [asked EXCEPT
                                    !.served = Append(@, reply),
                                    !.all_hits = Extend(@, reply),
                                    !.offset = offset,
                                    !.status = IF LoopEnds(offset, pager.total)
                                               THEN "returned" ELSE "running"]
    /\ UNCHANGED <<case_cache, now, use_cohort_copilot, last, watch, seen, probe, run>>

\* one pass of the while loop: build the payload, post it, read the reply
QueryPage ==
    /\ pager.status = "running"
    /\ \E reply \in PageReplies(pager.page_size) :
           LET payload == [filters |-> pager.filters, from |-> pager.offset,
                           size |-> pager.page_size]
               asked == [pager EXCEPT !.requests = Append(@, payload)]
           IN IF reply.kind # "ok"
              THEN pager' = [asked EXCEPT !.status = "raised", !.exc = reply.kind]
              ELSE LET offset == pager.offset + pager.page_size
                   IN pager' = [asked EXCEPT
                                    !.served = Append(@, reply),
                                    !.printed = IF reply.warnings # <<>>
                                                THEN Append(@, reply.warnings) ELSE @,
                                    !.all_hits = Extend(@, reply),
                                    !.offset = offset,
                                    !.status = IF LoopEnds(offset, pager.total)
                                               THEN "returned" ELSE "running",
                                    !.result = IF LoopEnds(offset, pager.total)
                                               THEN Some(Extend(pager.all_hits, reply))
                                               ELSE @]
    /\ UNCHANGED <<case_cache, now, use_cohort_copilot, last, watch, seen, probe, run>>

\* the case id of every hit kept, repeated ones too
Distinct_Keep(hits) == hits

\* list(set([hit["case"]["case_id"] for hit in hits])): a hit is named here by
\* the case it reports; each case once, in the order of first appearance (the
\* order of a Python set is unspecified and no reader depends on it)
RECURSIVE Distinct(_)
Distinct(hits) ==
    IF Len(hits) = 0 THEN <<>>
    ELSE LET front == Distinct(SubSeq(hits, 1, Len(hits) - 1))
             case_id == hits[Len(hits)]
         IN IF \E i \in 1..Len(front) : front[i] = case_id THEN front
            ELSE Append(front, case_id)

\* what a primitive tool does with the hits returned: case_ids = set(...), then
\* the list of them is the value it stores
StoreHits ==
    /\ pager.status = "returned"
    /\ pager' = [pager EXCEPT !.status = "stored", !.case_ids = Distinct(pager.result[1])]
    /\ UNCHANGED <<case_cache, now, use_cohort_copilot, last, watch, seen, probe, run>>

NextPaging ==
    \/ StartQuery
    \/ QueryPage
    \/ StoreHits

SpecPaging == Init /\ [][NextPaging]_vars

\* max(1, ceil(T / S))
PagesFor(S, T) == IF T = 0 THEN 1 ELSE (T + S - 1) \div S

\* the hits of the pages served, one after the other
RECURSIVE Concatenation(_)
Concatenation(pages) ==
    IF Len(pages) = 0 THEN <<>> ELSE pages[1].hits \o Concatenation(Tail(pages))

(***************************************************************************)
(* The filters the mutation tool and the copy-number tool send upstream,   *)
(* for every shape of their arguments and an upstream that fails or names  *)
(* one or two ids, as time passes.                                         *)
(***************************************************************************)
CallSSMWide ==
    \E a \in SSMArgs :
        LET cache_id == SSM_cache_id(a[1], a[2])
            wide == IF Contains(case_cache, now, cache_id) THEN {NoReply}
                    ELSE {[exc |-> "HTTPError", cases |-> {}]}
                         \cup {[exc |-> "none", cases |-> S] : S \in {{"s1"}, {"s1", "s2"}}}
        IN \E reply1 \in wide, reply2 \in wide :
               Step("get_simple_somatic_mutation_occurrences", a, cache_id, {},
                    get_simple_somatic_mutation_occurrences(case_cache, now, a[1], a[2],
                                                            reply1, reply2))

CallCNVWide ==
    \E a \in {<<GeneA, cnv_change>> :
                 cnv_change \in {Absent, Some(<<"heterozygous deletion">>), Some(<<"gain">>)}} :
        \E reply \in RepliesFor(CNV_cache_id(a[1], a[2])) :
            Step("get_copy_number_variant_occurrences", a, CNV_cache_id(a[1], a[2]), {},
                 get_copy_number_variant_occurrences(case_cache, now, a[1], a[2], reply))

NextFilters ==
    \/ CallSSMWide
    \/ CallCNVWide
    \/ Tick

SpecFilters == InitAlgebra /\ [][NextFilters]_vars

(***************************************************************************)
(* Two sessions call get_cases_by_project with the same project on the one *)
(* cache of the process.  The tool takes no lock and keeps no record of a  *)
(* query in progress, so the statements of the two calls may interleave:   *)
(* the membership test, each request of gdc_query_all, and the store.      *)
(* run maps a session to the position of its call.                        *)
(***************************************************************************)
\* the upstream's total of one query, with pages of one hit each
MaxSessionTotal == 2

InitSessions ==
    /\ case_cache = TTLCache(maxsize, ttl)
    /\ now = 0
    /\ use_cohort_copilot \in BOOLEAN
    /\ last = Idle
    /\ watch = Project_cache_id(<<"P">>)
    /\ seen = Unseen
    /\ probe = NoProbe
    /\ run = [s \in 1..2 |->
                 [pc |-> "idle", absent |-> FALSE, overlap |-> FALSE, fetched |-> FALSE,
                  total |-> 0, offset |-> 0, all_hits |-> <<>>, pages |-> 0,
                  exc |-> "none", ret |-> <<>>]]
    /\ pager = NoPager

\* cache_id = f"Cases-Project-{project}"; if cache_id in case_cache: ... else
\* the call enters gdc_query_all with all_hits = [] and offset = 0
SessionTest ==
    \E s \in 1..2 :
        /\ run[s].pc = "idle"
        /\ LET other == 3 - s
               busy == run[other].pc \in {"hit", "fetch", "store"}
               found == Contains(case_cache, now, watch)
           IN \E T \in 1..MaxSessionTotal :
                  run' = [run EXCEPT
                             ![s] = [@ EXCEPT !.pc = IF found THEN "hit" ELSE "fetch",
                                              !.absent = ~found,
                                              !.overlap = busy,
                                              !.fetched = ~found,
                                              !.total = IF found THEN 0 ELSE T],
                             ![other] = [@ EXCEPT !.overlap = @ \/ busy]]
        /\ UNCHANGED <<case_cache, now, use_cohort_copilot, last, watch, seen, probe, pager>>

\* case_cache[cache_id] = case_cache[cache_id]; return cache_id
SessionHit ==
    \E s \in 1..2 :
        /\ run[s].pc = "hit"
        /\ LET got == Refresh(case_cache, now, watch)
           IN /\ case_cache' = got.cache
              /\ run' = [run EXCEPT ![s] = [@ EXCEPT !.pc = "done", !.exc = got.exc,
                                                     !.ret = IF got.exc = "none"
                                                             THEN watch ELSE <<>>]]
              /\ last' = [Idle EXCEPT !.tool = "get_cases_by_project",
                                      !.args = <<<<"P">>>>, !.exc = got.exc]
        /\ UNCHANGED <<now, use_cohort_copilot, watch, seen, probe, pager>>

\* one pass of the loop of gdc_query_all in the session's call: the request
\* fails, or its page of one hit is appended and the offset moves on
SessionFetch ==
    \E s \in 1..2 :
        /\ run[s].pc = "fetch"
        /\ \E reply \in {[kind |-> "HTTPError", hits |-> <<>>]}
                        \cup {[kind |-> "ok", hits |-> <<h>>] : h \in {"c1", "c2"}} :
               IF reply.kind # "ok"
               THEN /\ run' = [run EXCEPT ![s] = [@ EXCEPT !.pc = "done", !.pages = @ + 1,
                                                           !.exc = reply.kind]]
                    /\ last' = [Idle EXCEPT !.tool = "get_cases_by_project",
                                            !.args = <<<<"P">>>>, !.exc = reply.kind]
               ELSE /\ run' = [run EXCEPT
                                  ![s] = [@ EXCEPT
                                             !.all_hits = Extend(@, [hits |-> reply.hits]),
                                             !.pages = @ + 1,
                                             !.offset = @ + 1,
                                             !.pc = IF LoopEnds(run[s].offset + 1, run[s].total)
                                                    THEN "store" ELSE "fetch"]]
                    /\ last' = last
        /\ UNCHANGED <<case_cache, now, use_cohort_copilot, watch, seen, probe, pager>>

\* case_ids = set(...); case_cache[cache_id] = list(case_ids); return cache_id
SessionStore ==
    \E s \in 1..2 :
        /\ run[s].pc = "store"
        /\ case_cache' = SetItem(case_cache, now, watch,
                                 {run[s].all_hits[i] : i \in 1..Len(run[s].all_hits)})
        /\ run' = [run EXCEPT ![s] = [@ EXCEPT !.pc = "done", !.ret = watch]]
        /\ last' = [Idle EXCEPT !.tool = "get_cases_by_project", !.args = <<<<"P">>>>]
        /\ UNCHANGED <<now, use_cohort_copilot, watch, seen, probe, pager>>

NextSessions ==
    \/ SessionTest
    \/ SessionHit
    \/ SessionFetch
    \/ SessionStore
    \/ Tick

SpecSessions == InitSessions /\ [][NextSessions]_vars

(***************************************************************************)
(* The server of src/gdc-mcp/server.py, which decodes identifiers with     *)
(* regular expressions.  Its tools build their identifiers with the same   *)
(* f-strings as the tools above (it has no union and no cohort tool).      *)
(***************************************************************************)
\* pattern.match(s) of the pattern compiled for tool_name: Absent when it
\* does not match, else the values of its groups in order (an optional group
\* that took no part is None, written Absent).  match anchors the pattern at
\* the start of s only; ".+" and "[^-]+" take as much as lets the rest match.
TOOL_TO_CACHE_ID_PATTERN(tool_name, s) ==
    LET \* prefix(?P<x>.+)
        rest(prefix) ==
            IF StartsWith(s, prefix) /\ Len(s) > Len(prefix)
            THEN Some(<<SubSeq(s, Len(prefix) + 1, Len(s))>>)
            ELSE Absent
        \* prefix(?P<gene>[^-]+)(?:-(?P<change>.+))?
        optional(prefix) ==
            LET start == Len(prefix) + 1
                dashes == {i \in start..Len(s) : s[i] = "-"}
                stop == IF dashes = {} THEN Len(s) + 1
                        ELSE CHOOSE i \in dashes : \A j \in dashes : i <= j
            IN IF ~StartsWith(s, prefix) \/ stop = start THEN Absent
               ELSE Some(<<SubSeq(s, start, stop - 1),
                           IF stop < Len(s) THEN Some(SubSeq(s, stop + 1, Len(s)))
                           ELSE Absent>>)
        \* Cases-Intersect-\((?P<case_set_id_A>.+)\)-AND-\((?P<case_set_id_B>.+)\)
        intersect ==
            LET start == Len(S_Cases_Intersect) + 1
                closes(i) == {j \in i + Len(S_AND) + 1 .. Len(s) : s[j] = ")"}
                cuts == {i \in start + 1 .. Len(s) :
                            /\ StartsWith(SubSeq(s, i, Len(s)), S_AND)
                            /\ closes(i) # {}}
            IN IF ~StartsWith(s, S_Cases_Intersect) \/ cuts = {} THEN Absent
               ELSE LET i == CHOOSE c \in cuts : \A d \in cuts : d <= c
                        j == CHOOSE c \in closes(i) : \A d \in closes(i) : d <= c
                    IN Some(<<SubSeq(s, start, i - 1), SubSeq(s, i + Len(S_AND), j - 1)>>)
    IN CASE tool_name = "compute_case_intersection" -> intersect
         [] tool_name = "get_simple_somatic_mutation_occurrences" -> optional(S_Cases_SSM)
         [] tool_name = "get_copy_number_variant_occurrences" -> optional(S_Cases_CNV)
         [] tool_name = "get_microsatellite_instability_occurrences" -> rest(S_Cases_MSI)
         [] tool_name = "get_cases_by_project" -> rest(S_Cases_Project)

\* suggest_tool_from_case_set_id of src/gdc-mcp/server.py: the first pattern,
\* in the order of the dict, that matches names the tool and its groups the
\* arguments of the message; "none" stands for the message that no pattern matched
gdc_mcp_suggest_tool_from_case_set_id(case_set_id) ==
    LET order == <<"compute_case_intersection",
                   "get_simple_somatic_mutation_occurrences",
                   "get_copy_number_variant_occurrences",
                   "get_microsatellite_instability_occurrences",
                   "get_cases_by_project">>
        matching == {k \in 1..Len(order) :
                        TOOL_TO_CACHE_ID_PATTERN(order[k], case_set_id) # Absent}
    IN IF matching = {} THEN [tool |-> "none", args |-> <<>>]
       ELSE LET k == CHOOSE m \in matching : \A n \in matching : m <= n
            IN [tool |-> order[k],
                args |-> TOOL_TO_CACHE_ID_PATTERN(order[k], case_set_id)[1]]

\* a producing call of that server is drawn with the identifier it returns:
\* the four primitive tools, an intersection of two primitive identifiers,
\* and intersections with an intersection as first or as second input, two deep
InitRegex ==
    LET call(tool, args, id) == [tool |-> tool, args |-> args, id |-> id,
                                 done |-> FALSE, result |-> <<>>]
        intersection(A, B) ==
            call("compute_case_intersection", <<A, B>>, Intersect_cache_id(A, B))
        primitive ==
            {call("get_simple_somatic_mutation_occurrences", <<g, a>>, SSM_cache_id(g, a)) :
                 g \in {GeneA, GeneAB}, a \in {Absent, Some(<<"B">>)}}
            \cup {call("get_copy_number_variant_occurrences", <<GeneA, c>>,
                       CNV_cache_id(GeneA, c)) : c \in {Absent, Some(<<"g","a","i","n">>)}}
            \cup {call("get_microsatellite_instability_occurrences", <<m>>, MSI_cache_id(m)) :
                      m \in {<<"m","s","i">>}}
            \cup {call("get_cases_by_project", <<p>>, Project_cache_id(p)) : p \in {<<"P">>}}
        flat == {intersection(x.id, y.id) : x \in primitive, y \in primitive}
        few == {x \in flat : x.args[1] \in {IdSSM_A, Project_cache_id(<<"P">>)}
                             /\ x.args[2] \in {IdSSM_A, Project_cache_id(<<"P">>)}}
        nested == {intersection(x.id, y.id) : x \in few, y \in {c \in primitive : c.id = IdSSM_A}}
                  \cup {intersection(y.id, x.id) :
                            x \in few, y \in {c \in primitive : c.id = IdSSM_A}}
        deeper == {intersection(x.id, IdSSM_A) : x \in nested}
                  \cup {intersection(IdSSM_A, x.id) : x \in nested}
    IN /\ case_cache = TTLCache(maxsize, ttl)
       /\ now = 0
       /\ use_cohort_copilot = FALSE
       /\ last = Idle
       /\ watch = <<>>
       /\ seen = Unseen
       /\ probe \in primitive \cup flat \cup nested \cup deeper
       /\ run = NoRun
       /\ pager = NoPager

\* the identifier returned is given to suggest_tool_from_case_set_id
DecodeRegex ==
    /\ ~probe.done
    /\ probe' = [probe EXCEPT !.done = TRUE,
                              !.result = gdc_mcp_suggest_tool_from_case_set_id(probe.id)]
    /\ UNCHANGED <<case_cache, now, use_cohort_copilot, last, watch, seen, run, pager>>

SpecRegex == InitRegex /\ [][DecodeRegex]_vars

(***************************************************************************)
(* The server of src/server.py, which keys each case list by a new UUID.   *)
(* A producing tool queries the upstream and stores the case ids of the    *)
(* hits as a list, repeated ids included; probe counts the identifiers     *)
(* issued, and the n-th uuid4 is written n.                                *)
(***************************************************************************)
\* identifiers issued in one run of the model
MaxUuid == 3

\* get_simple_somatic_mutation_occurrences, get_copy_number_variant_occurrences
\* and get_cases_by_project of that server: the query fails and nothing is
\* stored, or cache_id = str(uuid.uuid4()); case_cache[cache_id] = [...]
UuidStore ==
    /\ probe.k < MaxUuid
    /\ \E reply \in {Raise("HTTPError")}
                    \cup {Return(h) : h \in {<<>>, <<"c1", "c1">>, <<"c1", "c2">>}} :
           IF reply.exc # "none"
           THEN /\ last' = [Idle EXCEPT !.tool = "get_cases_by_project", !.exc = reply.exc]
                /\ UNCHANGED <<case_cache, probe>>
           ELSE /\ case_cache' = SetItem(case_cache, now, probe.k + 1, reply.val)
                /\ probe' = [probe EXCEPT !.k = @ + 1]
                /\ last' = [Idle EXCEPT !.tool = "get_cases_by_project",
                                        !.cache_id = probe.k + 1,
                                        !.unchanged = FALSE]
    /\ UNCHANGED <<now, use_cohort_copilot, watch, seen, run, pager>>

\* the three reads in order, each raising KeyError for an identifier that is
\* missing or expired, then the two set intersections and the result, whose
\* frequency is the quotient of the two counts, written <<count, total>>
get_case_cooccurrence_frequency_by_project(c, t, cases_A, cases_B, cases_project) ==
    LET set(list) == {list[i] : i \in 1..Len(list)}
        got_A == GetItem(c, t, cases_A)
        got_B == GetItem(got_A.cache, t, cases_B)
        got_project == GetItem(got_B.cache, t, cases_project)
        _cases_A == set(got_A.val)
        _cases_B == set(got_B.val)
        _cases_project == set(got_project.val)
        A_and_B == _cases_A \cap _cases_B
        project_A_and_B == A_and_B \cap _cases_project
        failed(cache, e) == [cache |-> cache, exc |-> e, cooccurrence_count |-> -1,
                             total_project_cases |-> -1, cooccurrence_frequency |-> <<>>]
    IN IF got_A.exc # "none" THEN failed(c, got_A.exc)
       ELSE IF got_B.exc # "none" THEN failed(got_A.cache, got_B.exc)
       ELSE IF got_project.exc # "none" THEN failed(got_B.cache, got_project.exc)
       ELSE IF Cardinality(_cases_project) = 0
       THEN failed(got_project.cache, "ZeroDivisionError")
       ELSE [cache |-> got_project.cache, exc |-> "none",
             cooccurrence_count |-> Cardinality(project_A_and_B),
             total_project_cases |-> Cardinality(_cases_project),
             cooccurrence_frequency |-> <<Cardinality(project_A_and_B),
                                          Cardinality(_cases_project)>>]

\* a call of the cooccurrence tool with three identifiers, issued or not: the
\* first two identifiers issued as the conditions and any one as the project
CallCooccurrence ==
    \E cases_A \in 1..2, cases_B \in 1..2, cases_project \in 1..MaxUuid :
        LET r == get_case_cooccurrence_frequency_by_project(case_cache, now, cases_A,
                                                            cases_B, cases_project)
            entries(c) == {c.links[i] : i \in 1..Len(c.links)}
        IN /\ case_cache' = r.cache
           /\ last' = [Idle EXCEPT
                          !.tool = "get_case_cooccurrence_frequency_by_project",
                          !.args = <<cases_A, cases_B, cases_project>>,
                          !.exc = r.exc,
                          !.count = r.cooccurrence_count,
                          !.ret = <<r.cooccurrence_count, r.total_project_cases,
                                    r.cooccurrence_frequency>>,
                          !.absent = {k \in {cases_A, cases_B, cases_project} :
                                         ~Contains(case_cache, now, k)},
                          \* every key kept, with its value and its deadline
                          !.unchanged = entries(r.cache) = entries(case_cache)]
           /\ UNCHANGED <<now, use_cohort_copilot, watch, seen, probe, run, pager>>

NextUuid ==
    \/ UuidStore
    \/ CallCooccurrence
    \/ Tick

SpecUuid == Init /\ [][NextUuid]_vars

(***************************************************************************)
(* What the tools can produce for the arguments of the model.              *)
(***************************************************************************)
\* every producing call of the model with the identifier it computes
Produced ==
    {[tool |-> "get_simple_somatic_mutation_occurrences", args |-> a,
      id |-> SSM_cache_id(a[1], a[2])] : a \in SSMArgs}
    \cup {[tool |-> "get_copy_number_variant_occurrences", args |-> a,
           id |-> CNV_cache_id(a[1], a[2])] : a \in CNVArgs}
    \cup {[tool |-> "get_microsatellite_instability_occurrences", args |-> a,
           id |-> MSI_cache_id(a[1])] : a \in MSIArgs}
    \cup {[tool |-> "get_cases_by_project", args |-> a,
           id |-> Project_cache_id(a[1])] : a \in ProjectArgs}
    \cup {[tool |-> "get_cases_by_cohort_description", args |-> a,
           id |-> Cohort_cache_id(a[1])] : a \in CohortArgs}
    \cup {[tool |-> "compute_case_intersection", args |-> a,
           id |-> Intersect_cache_id(a[1], a[2])] : a \in IntersectionArgs}
    \cup {[tool |-> "compute_case_union", args |-> a,
           id |-> Union_cache_id(a[1], a[2])] : a \in UnionArgs}

\* the place of a tool in TOOL_CACHE_ID_TEMPLATES
TemplateOf(tool) == CHOOSE k \in DOMAIN TOOL_CACHE_ID_TEMPLATES :
                        TOOL_CACHE_ID_TEMPLATES[k].name = tool

(***************************************************************************)
(* Properties.                                                             *)
(***************************************************************************)

\* C1: a primitive-query tool called with arguments whose entry is still
\* retrievable returns the identifier it computes for them, asks the upstream
\* nothing and calls no translator; when the call before it was the same call,
\* the two identifiers returned are equal.
C1_RepeatIsPureHit ==
    (last.tool \in PrimitiveTools /\ last.cached) =>
        /\ last.exc = "none"
        /\ last.ret = last.cache_id
        /\ last.upstream = <<>>
        /\ last.translator = 0
        /\ (last.repeat => last.ret = last.prior)

\* a primitive query repeated with the same arguments while its entry is cached
C1_Witness ==
    /\ last.tool \in PrimitiveTools
    /\ last.repeat
    /\ last.cached
    /\ last.exc = "none"

\* C2: compute_case_intersection and compute_case_union fail with the tool
\* error for an unresolved case set whenever one of their two inputs is not
\* retrievable, whatever else the cache holds.
C2_AbsentInputFails ==
    (last.tool \in SetTools /\ last.absent # {}) => last.exc = "ToolError"

\* C3: get_case_set_size on an identifier a producing tool stored and that has
\* expired fails with a tool error whose message suggests the tool that
\* produced the identifier.
C3_ExpiredNamesProducer ==
    \A p \in Produced :
        (last.tool = SizeTool /\ p.id \in last.lapsed) =>
            /\ last.exc = "ToolError"
            /\ last.msg.text = "use the following tool"
            /\ last.msg.tool_name = p.tool

\* C4 as stated: get_case_set_size on an identifier that no tool produces is
\* told that the identifier matches no known pattern, with no suggested call.
C4_NeverProducedIsUnknown ==
    (last.tool = SizeTool /\ last.args[1] \notin {p.id : p \in Produced}) =>
        /\ last.exc = "ToolError"
        /\ last.msg.text = "did not match any known patterns"
        /\ last.msg.tool_name = None
        /\ last.count = -1

\* C4: get_case_set_size on an identifier that starts with none of the template
\* prefixes fails with a tool error saying that the identifier matches no known
\* pattern; it suggests no call and returns no count.
C4_UnknownPrefixIsUnknown ==
    (/\ last.tool = SizeTool
     /\ \A k \in DOMAIN TOOL_CACHE_ID_TEMPLATES : ~StartsWith(last.args[1], TemplatePrefix[k])) =>
        /\ last.exc = "ToolError"
        /\ last.msg.text = "did not match any known patterns"
        /\ last.msg.tool_name = None
        /\ last.msg.tool_args = <<>>
        /\ last.count = -1

\* get_case_set_size was called with an identifier that starts no template
C4_Witness ==
    /\ last.tool = SizeTool
    /\ last.args = <<IdNearMiss>>
    /\ last.exc = "ToolError"

\* C5 as stated: from a successful read of an entry at time t1 until t1 + ttl
\* the entry is retrievable.
C5_ReadKeepsRetrievable ==
    (seen.read >= 0 /\ now < seen.read + case_cache.ttl) =>
        Contains(case_cache, now, watch)

\* C5: from a successful read of an entry at time t1 until t1 + ttl the entry
\* is retrievable, unless a store of another identifier into the full cache has
\* evicted it since.
C5_ReadKeepsRetrievableUnlessEvicted ==
    (seen.read >= 0 /\ ~seen.evicted /\ now < seen.read + case_cache.ttl) =>
        Contains(case_cache, now, watch)

\* the entry is retrievable at or after the deadline it had when it was read
C5_Witness ==
    /\ seen.read >= 0
    /\ now > seen.read
    /\ now >= seen.was
    /\ Contains(case_cache, now, watch)

\* C6: once an entry's deadline has passed, get_case_set_size, intersect and
\* union naming it fail with the not-found tool error, and the primitive query
\* for it asks the upstream again.
C6_ExpiredIsGone ==
    /\ (last.tool \in SetTools \cup {SizeTool} /\ last.lapsed # {}) => last.exc = "ToolError"
    /\ (last.tool \in PrimitiveTools /\ last.stale) => last.upstream # <<>>

\* C7: every entry a tool call reads is read before its deadline: the deadline
\* the lookup sees is later than the time of the call.
C7_ReadsAreFresh ==
    \A x \in last.reads : x.at = now /\ x.at < x.expires

\* a count was returned, or a set operation computed, later than the first
\* deadline of any entry
C7_Witness ==
    /\ now >= case_cache.ttl
    /\ last.reads # {}
    /\ last.exc = "none"
    /\ \/ last.count >= 0
       \/ last.tool \in SetTools /\ ~last.cached

\* C8: two producing calls compute the same identifier only if they are calls
\* of the same tool with the same argument values.
C8_NoCollision ==
    [][(/\ last.tool \in ProducingTools
        /\ last'.tool \in ProducingTools
        /\ last.cache_id = last'.cache_id)
       => (last.tool = last'.tool /\ last.args = last'.args)]_vars

\* C9: an identifier returned by a producing tool has as many top-level
\* parenthesized segments as the template of the tool has parameters.
C9_SegmentsMatchTemplate ==
    (last.tool \in ProducingTools /\ last.exc = "none") =>
        LET segments == extract_top_level_params(last.ret)
        IN /\ segments.exc = "none"
           /\ Len(segments.val) = Len(TemplateFields[TemplateOf(last.tool)])

\* C10: decoding a template rendered with argument strings of balanced
\* parentheses gives the template's tool and, in template order, each
\* parameter name with the argument string rendered for it.
C10_DecodeRoundTrip ==
    probe.done =>
        /\ probe.result.exc = "none"
        /\ probe.result.val.found
        /\ probe.result.val.tool = TOOL_CACHE_ID_TEMPLATES[probe.k].name
        /\ probe.result.val.params =
               [j \in 1..Len(TemplateFields[probe.k]) |->
                   <<TemplateFields[probe.k][j], probe.args[j]>>]

\* a rendered identifier was decoded whose first argument nests parentheses
\* and whose second is empty
C10_Witness ==
    /\ probe.done
    /\ Len(probe.args) = 2
    /\ probe.args[1] = <<"(", "a", ")">>
    /\ probe.args[2] = <<>>
    /\ probe.result.exc = "none"

\* C11: a tool call either returns or raises ToolError; it ends with no other
\* exception.
C11_OnlyToolErrors ==
    last.exc \in {"none", "ToolError"}

\* C12: when a call has seen an identifier in the cache, the refresh that
\* follows completes: every identifier the call observed present has been
\* written back by the time the call ends.
C12_ObservedIsRefreshed ==
    run.done => run.observed \subseteq run.refreshed

\* C13: an intersection or union that began with both inputs retrievable and
\* fails, an input having expired on the way, fails with the ToolError for a
\* missing input and stores nothing.
C13_LostInputIsToolError ==
    (/\ run.done
     /\ run.tool \in SetTools
     /\ Cardinality(run.began_with) = 2
     /\ run.exc # "none") =>
        /\ run.exc = "ToolError"
        /\ run.stored = {}

\* C14 as stated: a set operation that returned for two different cached
\* identifiers returns the same identifier when it is called with them in the
\* other order.
C14_ReversedSameIdentifier ==
    (/\ last.tool \in SetTools
     /\ last.exc = "none"
     /\ last.args[1] # last.args[2]
     /\ Contains(case_cache, now, last.args[1])
     /\ Contains(case_cache, now, last.args[2])) =>
        LET o == SetToolCall(last.tool, case_cache, now, last.args[2], last.args[1])
        IN /\ o.exc = "none"
           /\ o.ret = last.ret

\* C14: a set operation that computed its result from two different cached
\* identifiers, called next with them in the other order and computing again,
\* returns an identifier that denotes the same case set.
C14_ReversedSameSet ==
    (/\ last.tool \in SetTools
     /\ last.exc = "none"
     /\ ~last.cached
     /\ last.args[1] # last.args[2]
     /\ Contains(case_cache, now, last.args[1])
     /\ Contains(case_cache, now, last.args[2])
     /\ ~Contains(case_cache, now, CacheIdOf(last.tool, <<last.args[2], last.args[1]>>))) =>
        LET o == SetToolCall(last.tool, case_cache, now, last.args[2], last.args[1])
        IN /\ o.exc = "none"
           /\ ValueOf(o.cache, o.ret) = ValueOf(case_cache, last.ret)

\* an intersection computed from two identifiers whose sets differ
C14_Witness ==
    /\ last.tool = "compute_case_intersection"
    /\ last.exc = "none"
    /\ ~last.cached
    /\ last.args[1] # last.args[2]
    /\ ValueOf(case_cache, last.args[1]) # ValueOf(case_cache, last.args[2])
    /\ ValueOf(case_cache, last.ret) # {}

C16_SizeBounds ==
    (/\ last.tool \in SetTools
     /\ last.exc = "none"
     /\ ~last.cached) =>
        LET I == SizeNow(last.ret)
            P == SizeNow(last.args[1])
            M == SizeNow(last.args[2])
        IN /\ P >= 0
           /\ M >= 0
           /\ IF last.tool = "compute_case_intersection"
              THEN I >= 0 /\ I <= P /\ I <= M
              ELSE I >= P /\ I >= M /\ I <= P + M

\* an intersection strictly smaller than both of its inputs
C16_Witness ==
    /\ last.tool = "compute_case_intersection"
    /\ last.exc = "none"
    /\ ~last.cached
    /\ SizeNow(last.ret) = 0
    /\ SizeNow(last.args[1]) = 1
    /\ SizeNow(last.args[2]) = 1

\* C17: an identifier cached with an empty case set has size 0, is accepted by
\* the intersection and the union, and the query that produces it returns it
\* without asking the upstream.
C17_EmptyIsCached ==
    \A i \in 1..Len(case_cache.links) :
        LET X == case_cache.links[i].key
        IN (Fresh(case_cache.links[i], now) /\ case_cache.links[i].value = {}) =>
            /\ get_case_set_size(case_cache, now, X).exc = "none"
            /\ SizeNow(X) = 0
            /\ compute_case_intersection(case_cache, now, X, X).exc = "none"
            /\ compute_case_union(case_cache, now, X, X).exc = "none"
            /\ \A a \in AlgebraSSMArgs :
                   SSM_cache_id(a[1], a[2]) = X =>
                       LET o == get_simple_somatic_mutation_occurrences(
                                    case_cache, now, a[1], a[2],
                                    [exc |-> "HTTPError", cases |-> {}],
                                    [exc |-> "HTTPError", cases |-> {}])
                       IN o.exc = "none" /\ o.ret = X /\ o.upstream = <<>>

\* the size tool answered 0 for a mutation query that found no case
C17_Witness ==
    /\ last.tool = SizeTool
    /\ last.exc = "none"
    /\ last.count = 0
    /\ last.args[1] \in {IdSSM_A, IdSSM_AB}

\* C18: the identifier a producing tool returns is the one built from the tool
\* and its arguments, whatever was called before and whatever the cache holds.
C18_IdentifierFromArguments ==
    (last.tool \in ProducingTools /\ last.exc = "none") =>
        last.ret = CacheIdOf(last.tool, last.args)

\* a mutation query answered from the cache after other calls were made
C18_Witness ==
    /\ last.tool = "get_simple_somatic_mutation_occurrences"
    /\ last.exc = "none"
    /\ last.cached
    /\ Len(case_cache.links) = 3

\* C19: while gdc_query_all runs it has issued fewer than max(1, ceil(T/S))
\* requests; when it returns it has issued exactly that many; request i carries
\* the filter and page size of the call and the offset (i-1)*S.
C19_RequestsIssued ==
    pager.status \in {"running", "returned"} =>
        /\ pager.status = "running" =>
               Len(pager.requests) < PagesFor(pager.page_size, pager.total)
        /\ pager.status = "returned" =>
               Len(pager.requests) = PagesFor(pager.page_size, pager.total)
        /\ \A i \in 1..Len(pager.requests) :
               pager.requests[i] = [filters |-> pager.filters,
                                    from |-> (i - 1) * pager.page_size,
                                    size |-> pager.page_size]

\* a call that returned after two requests, the second one for a partial page
C19_Witness ==
    /\ pager.status = "returned"
    /\ Len(pager.requests) = 2
    /\ pager.total < 2 * pager.page_size

\* C20: when gdc_query_all returns, its result is the hits of every page it
\* requested, in request order, pages with warnings included.
C20_AllHitsInOrder ==
    pager.status = "returned" =>
        /\ Len(pager.served) = Len(pager.requests)
        /\ pager.all_hits = Concatenation(pager.served)

\* a call that returned two pages of hits, the first of them with warnings
C20_Witness ==
    /\ pager.status = "returned"
    /\ Len(pager.served) = 2
    /\ pager.served[1].warnings # <<>>
    /\ pager.served[1].hits # <<>>
    /\ pager.served[2].hits # <<>>
    /\ Len(pager.all_hits) = 4

\* C21: when gdc_query_all has failed, the failure is HTTPError or KeyError, the
\* request that failed is the last one issued and the only one for its offset,
\* every earlier request was served, and no result was returned.
C21_FailsAtPageOnce ==
    pager.status = "raised" =>
        /\ pager.exc \in {"HTTPError", "KeyError"}
        /\ Len(pager.requests) = Len(pager.served) + 1
        /\ \A i, j \in 1..Len(pager.requests) :
               pager.requests[i].from = pager.requests[j].from => i = j
        /\ pager.result = Absent

\* a call that failed on its second page after a first page of hits
C21_Witness ==
    /\ pager.status = "raised"
    /\ Len(pager.requests) = 2
    /\ pager.all_hits # <<>>

\* C22: a primitive-query tool call that ended with the failure of an upstream
\* query left the cache as it found it, and its identifier is not retrievable.
C22_FailedFetchLeavesCache ==
    (/\ last.tool \in PrimitiveTools
     /\ last.upstream # <<>>
     /\ last.exc = "HTTPError") =>
        /\ last.unchanged
        /\ ~Contains(case_cache, now, last.cache_id)

\* the second query of the mutation tool failed while the cache held entries
C22_Witness ==
    /\ last.tool = "get_simple_somatic_mutation_occurrences"
    /\ last.upstream = <<"ssms", "ssm_occurrences">>
    /\ last.exc = "HTTPError"
    /\ Len(case_cache.links) >= 2

\* C23: decoding an identifier that starts with a template prefix raises
\* IndexError when a closing parenthesis has no opening one pending or an
\* opening one stays unclosed, raises ValueError when the parentheses balance
\* but the top-level pairs are not as many as the template's parameters, and
\* names a tool only when neither is the case.
C23_MalformedIsRejected ==
    probe.done =>
        LET text == probe.args[1]
            Depth(i) == Cardinality({j \in 1..i : text[j] = "("})
                        - Cardinality({j \in 1..i : text[j] = ")"})
            tops == {i \in 1..Len(text) : text[i] = ")" /\ Depth(i) = 0}
        IN IF \E i \in 1..Len(text) : Depth(i) < 0
           THEN probe.result.exc = "IndexError"
           ELSE IF Depth(Len(text)) > 0
           THEN probe.result.exc = "IndexError"
           ELSE IF Cardinality(tops) # Len(TemplateFields[probe.k])
           THEN probe.result.exc = "ValueError"
           ELSE /\ probe.result.exc = "none"
                /\ probe.result.val.found
                /\ probe.result.val.tool = TOOL_CACHE_ID_TEMPLATES[probe.k].name

\* an identifier of a two-parameter template with one balanced segment was rejected
C23_Witness ==
    /\ probe.done
    /\ Len(TemplateFields[probe.k]) = 2
    /\ probe.segments.exc = "none"
    /\ Len(probe.segments.val) = 1
    /\ probe.result.exc = "ValueError"

\* C27: for an identifier with balanced parentheses extract_top_level_params
\* returns, from left to right, the text between each top-level opening
\* parenthesis and the parenthesis that closes it, nested parentheses included.
C27_TopLevelSegments ==
    (probe.done /\ Balanced(probe.args[1])) =>
        LET text == probe.args[1]
            Depth(i) == Cardinality({j \in 1..i : text[j] = "("})
                        - Cardinality({j \in 1..i : text[j] = ")"})
            tops == {i \in 1..Len(text) : text[i] = ")" /\ Depth(i) = 0}
            Close(n) == CHOOSE c \in tops : Cardinality({d \in tops : d <= c}) = n
            Open(c) == CHOOSE o \in 1..c :
                           /\ text[o] = "(" /\ Depth(o) = 1
                           /\ \A m \in (o + 1)..c : ~(text[m] = "(" /\ Depth(m) = 1)
        IN /\ probe.segments.exc = "none"
           /\ Len(probe.segments.val) = Cardinality(tops)
           /\ \A n \in 1..Cardinality(tops) :
                  probe.segments.val[n] = SubSeq(text, Open(Close(n)) + 1, Close(n) - 1)

\* the identifier of an intersection of two intersections gave its two inner
\* identifiers
C27_Witness ==
    /\ probe.done
    /\ probe.segments.exc = "none"
    /\ probe.segments.val = <<Intersect_cache_id(IdUnknown, GeneA),
                              Intersect_cache_id(GeneA, IdUnknown)>>
    /\ probe.result.exc = "none"

\* C24: after a producing tool returned an identifier, the identifier is
\* retrievable, its deadline is the present time plus ttl, and
\* get_case_set_size of it returns a count.
C24_ReturnedIsCached ==
    (last.tool \in ProducingTools /\ last.exc = "none") =>
        /\ Contains(case_cache, now, last.ret)
        /\ case_cache.links[IndexOfKey(case_cache, last.ret)].expires = now + case_cache.ttl
        /\ get_case_set_size(case_cache, now, last.ret).exc = "none"
        /\ SizeNow(last.ret) >= 0

\* an intersection returned on its hit path, after the clock had advanced
C24_Witness ==
    /\ last.tool = "compute_case_intersection"
    /\ last.exc = "none"
    /\ last.cached
    /\ now > 0

\* C25: the cache never holds more than maxsize entries; a producing tool that
\* found maxsize retrievable entries, none of them its own, returns with its
\* identifier retrievable and the cache still holding maxsize entries.
C25_CapacityKept ==
    /\ Len(case_cache.links) <= case_cache.maxsize
    /\ (/\ last.tool \in ProducingTools
        /\ last.full
        /\ ~last.cached
        /\ last.exc = "none") =>
           /\ Contains(case_cache, now, last.ret)
           /\ Len(FreshLinks(case_cache.links, now)) = case_cache.maxsize

\* an intersection stored its result in a cache that was full
C25_Witness ==
    /\ last.tool = "compute_case_intersection"
    /\ last.full
    /\ ~last.cached
    /\ last.exc = "none"

\* C26: the value a primitive tool stores names no case twice and names exactly
\* the cases of the hits, so its length is the number of distinct cases.
C26_StoredIsDuplicateFree ==
    pager.status = "stored" =>
        LET named == {pager.all_hits[i] : i \in 1..Len(pager.all_hits)}
        IN /\ \A i, j \in 1..Len(pager.case_ids) :
                  pager.case_ids[i] = pager.case_ids[j] => i = j
           /\ {pager.case_ids[i] : i \in 1..Len(pager.case_ids)} = named
           /\ Len(pager.case_ids) = Cardinality(named)

\* two pages that report the same two cases were stored as two cases
C26_Witness ==
    /\ pager.status = "stored"
    /\ Len(pager.all_hits) = 4
    /\ Len(pager.case_ids) = 2

\* C28: the copy-number tool returns and stores the identifier built from the
\* change type as the caller gave it; on a miss its filter has the gene
\* condition and, when a change type is given, one condition on that change
\* type with 'heterozygous deletion' replaced by 'loss' and any other kept.
C28_RemapInFilterOnly ==
    last.tool = "get_copy_number_variant_occurrences" =>
        LET gene == last.args[1]
            cnv_change == last.args[2]
            cache_id == S_Cases_CNV \o gene
                        \o (IF cnv_change # Absent THEN S_Dash \o cnv_change[1] ELSE <<>>)
        IN /\ last.exc = "none" =>
                  last.ret = cache_id /\ Contains(case_cache, now, cache_id)
           /\ last.cached => last.exc = "none" /\ last.exchange = <<>>
           /\ ~last.cached =>
                  /\ Len(last.exchange) = 1
                  /\ last.exchange[1].filters.content =
                         <<[field |-> "cnv.consequence.gene.symbol", value |-> {gene}]>>
                         \o (IF cnv_change = Absent THEN <<>>
                             ELSE <<[field |-> "cnv.cnv_change_5_category",
                                     value |-> {IF cnv_change[1] = <<"heterozygous deletion">>
                                                THEN <<"loss">> ELSE cnv_change[1]}]>>)

\* a repeated call with 'heterozygous deletion' was answered from the cache
C28_Witness ==
    /\ last.tool = "get_copy_number_variant_occurrences"
    /\ last.args[2] = Some(<<"heterozygous deletion">>)
    /\ last.cached
    /\ last.repeat

\* C29: on a miss the mutation tool queries `ssms` first, with the filter on
\* gene and amino-acid change when the change is given and on the gene
\* otherwise; it queries `ssm_occurrences` only when the first query returned,
\* filtered on the ssm ids that query returned; it stores the cases of the
\* second query's hits when that query returned, and nothing otherwise.
C29_TwoQueriesInOrder ==
    (last.tool = "get_simple_somatic_mutation_occurrences" /\ ~last.cached) =>
        LET gene == last.args[1]
            aa_change == last.args[2]
            x == last.exchange
        IN /\ Len(x) \in {1, 2}
           /\ last.upstream = SubSeq(<<"ssms", "ssm_occurrences">>, 1, Len(x))
           /\ x[1].filters =
                  IF aa_change # Absent
                  THEN [field |-> "gene_aa_change",
                        value |-> {gene \o <<" ">> \o aa_change[1]}]
                  ELSE [field |-> "consequence.transcript.gene.symbol", value |-> {gene}]
           /\ Len(x) = 2 <=> x[1].reply.exc = "none"
           /\ Len(x) = 2 =>
                  x[2].filters = [field |-> "ssm.ssm_id", value |-> x[1].reply.cases]
           /\ last.exc = "none" <=> (Len(x) = 2 /\ x[2].reply.exc = "none")
           /\ last.exc = "none" => ValueOf(case_cache, last.ret) = x[2].reply.cases
           /\ last.exc # "none" => last.unchanged

\* both queries returned: two ssm ids from the first, one case from the second
C29_Witness ==
    /\ last.tool = "get_simple_somatic_mutation_occurrences"
    /\ ~last.cached
    /\ last.exc = "none"
    /\ Len(last.exchange) = 2
    /\ Cardinality(last.exchange[1].reply.cases) = 2
    /\ Cardinality(last.exchange[2].reply.cases) = 1

\* C30: a call of the cohort tool whose translated filter json.loads rejects
\* asked the translator once, sent nothing upstream and left the cache as it
\* was, with no retrievable entry for the description; the same call made
\* next asks the translator again, whatever it then answers.
C30_BadFilterStoresNothing ==
    (last.tool = "get_cases_by_cohort_description" /\ last.exc = "JSONDecodeError") =>
        /\ ~last.cached
        /\ last.translator = 1
        /\ last.upstream = <<>>
        /\ last.ret = <<>>
        /\ last.unchanged
        /\ ~Contains(case_cache, now, last.cache_id)
        /\ \A filter_ok \in BOOLEAN, reply \in RepliesFor(last.cache_id) :
               LET again == get_cases_by_cohort_description(case_cache, now, last.args[1],
                                                            filter_ok, reply)
               IN /\ again.translator = 1
                  /\ filter_ok => again.upstream = <<"cases">>

\* the filter did not parse while other case sets were cached
C30_Witness ==
    /\ last.tool = "get_cases_by_cohort_description"
    /\ last.exc = "JSONDecodeError"
    /\ Keys(case_cache) # {}

\* C31: every entry a call reads (the identifier of a hit-path lookup, the
\* argument of get_case_set_size, an input of a set operation) was retrievable
\* before the call and is retrievable after it with the same case set and the
\* deadline now + ttl; get_case_set_size adds no key and leaves every other
\* retrievable entry with its case set and its deadline.
C31_RefreshKeepsValue ==
    [][/\ \A x \in last'.reads :
              /\ Contains(case_cache, now, x.id)
              /\ Contains(case_cache', now', x.id)
              /\ ValueOf(case_cache', x.id) = ValueOf(case_cache, x.id)
              /\ case_cache'.links[IndexOfKey(case_cache', x.id)].expires
                     = now' + case_cache.ttl
       /\ last'.tool = SizeTool =>
              /\ Keys(case_cache') \subseteq Keys(case_cache)
              /\ \A k \in Keys(case_cache) \ {last'.args[1]} :
                     Contains(case_cache, now, k) =>
                         /\ Contains(case_cache', now', k)
                         /\ case_cache'.links[IndexOfKey(case_cache', k)].value
                                = ValueOf(case_cache, k)
                         /\ case_cache'.links[IndexOfKey(case_cache', k)].expires
                                = case_cache.links[IndexOfKey(case_cache, k)].expires
    ]_vars

\* get_case_set_size returned the size of a non-empty case set after the clock
\* had advanced, with another entry in the cache
C31_Witness ==
    /\ last.tool = SizeTool
    /\ last.exc = "none"
    /\ last.count > 0
    /\ last.reads # {}
    /\ now > 0
    /\ Cardinality(Keys(case_cache)) >= 2

\* C32: when a set operation returns from its miss path, both inputs and the
\* derived identifier are retrievable, each with the deadline now + ttl, and
\* the inputs hold the case sets they held before the call.
C32_InputsSurviveDerivedStore ==
    [][(last'.tool \in SetTools /\ last'.exc = "none" /\ ~last'.cached) =>
           /\ last'.ret = CacheIdOf(last'.tool, last'.args)
           /\ \A k \in {last'.args[1], last'.args[2], last'.ret} :
                  /\ Contains(case_cache', now', k)
                  /\ case_cache'.links[IndexOfKey(case_cache', k)].expires
                         = now' + case_cache.ttl
           /\ \A k \in {last'.args[1], last'.args[2]} :
                  /\ Contains(case_cache, now, k)
                  /\ ValueOf(case_cache', k) = ValueOf(case_cache, k)
    ]_vars

\* a union was computed and stored while the cache held maxsize entries
C32_Witness ==
    /\ last.tool = "compute_case_union"
    /\ last.exc = "none"
    /\ ~last.cached
    /\ last.full
    /\ Cardinality(Keys(case_cache)) = maxsize

\* C33: a set operation that finds an input absent raises, stores nothing
\* under the derived identifier and leaves the absent inputs absent; the
\* error carries the first absent input, A before B; with A absent nothing
\* is read and the cache is as it was; with A present and B absent, A alone
\* was read and has the deadline now + ttl.
C33_AbsentInputFails ==
    (last.tool \in SetTools /\ ~last.cached /\ last.absent # {}) =>
        LET A == last.args[1]
            B == last.args[2]
        IN /\ last.exc # "none"
           /\ last.ret = <<>>
           /\ ~Contains(case_cache, now, CacheIdOf(last.tool, last.args))
           /\ \A k \in last.absent : ~Contains(case_cache, now, k)
           /\ last.msg.case_set_id = (IF A \in last.absent THEN A ELSE B)
           /\ A \in last.absent => (last.reads = {} /\ last.unchanged)
           /\ A \notin last.absent =>
                  /\ {x.id : x \in last.reads} = {A}
                  /\ case_cache.links[IndexOfKey(case_cache, A)].expires
                         = now + case_cache.ttl

\* C34: whenever two identifiers and the identifier of their intersection
\* (their union) are all retrievable, the case set under the derived
\* identifier is the intersection (the union) of the case sets under the two.
C34_DerivedMatchesInputs ==
    \A a \in IntersectionArgs \cup UnionArgs :
        /\ (/\ Contains(case_cache, now, a[1])
            /\ Contains(case_cache, now, a[2])
            /\ Contains(case_cache, now, Intersect_cache_id(a[1], a[2]))) =>
               ValueOf(case_cache, Intersect_cache_id(a[1], a[2]))
                   = ValueOf(case_cache, a[1]) \cap ValueOf(case_cache, a[2])
        /\ (/\ Contains(case_cache, now, a[1])
            /\ Contains(case_cache, now, a[2])
            /\ Contains(case_cache, now, Union_cache_id(a[1], a[2]))) =>
               ValueOf(case_cache, Union_cache_id(a[1], a[2]))
                   = ValueOf(case_cache, a[1]) \cup ValueOf(case_cache, a[2])

\* C36: a step makes at most one identifier retrievable that was not: the
\* identifier a producing tool computed from its arguments and returned in
\* that step.  get_case_set_size makes none retrievable; a set operation
\* makes only its derived identifier retrievable, never one of its inputs,
\* and only when it found both inputs.  Every key held is an identifier the
\* producing tools build.
C36_KeysAreReturnedIdentifiers ==
    [][LET live == {k \in Keys(case_cache) : Contains(case_cache, now, k)}
           live_after == {k \in Keys(case_cache') : Contains(case_cache', now', k)}
           added == live_after \ live
       IN /\ added # {} =>
                 /\ last'.tool \in ProducingTools
                 /\ last'.exc = "none"
                 /\ added = {last'.ret}
                 /\ last'.ret = CacheIdOf(last'.tool, last'.args)
          /\ (last'.tool \in SetTools /\ added # {}) =>
                 /\ last'.absent = {}
                 /\ added \cap {last'.args[1], last'.args[2]} = {}
          /\ last'.tool = SizeTool => added = {}
          /\ Keys(case_cache') \subseteq {p.id : p \in Produced}
    ]_vars

\* an intersection was stored: the cache holds its two inputs and the derived
\* identifier, and nothing else
C36_Witness ==
    /\ last.tool = "compute_case_intersection"
    /\ last.exc = "none"
    /\ ~last.cached
    /\ Keys(case_cache) = {IdSSM_A, IdSSM_AB, Intersect_cache_id(IdSSM_A, IdSSM_AB)}

C37_RegexDecodesProducingCall ==
    probe.done =>
        /\ probe.result.tool = probe.tool
        /\ probe.result.args = probe.args

\* C38: in the server that keys case lists by UUID, a call of
\* get_case_cooccurrence_frequency_by_project with three identifiers that are
\* in the cache returns a result, an empty project list included:
\* cooccurrence_count is the number of distinct cases in all three lists,
\* total_project_cases the number of distinct cases of the project list,
\* 0 <= cooccurrence_count <= total_project_cases, and every entry of the
\* cache is as it was.
C38_CooccurrenceReturns ==
    (last.tool = "get_case_cooccurrence_frequency_by_project" /\ last.absent = {}) =>
        LET distinct(k) == {ValueOf(case_cache, k)[i] :
                                i \in 1..Len(ValueOf(case_cache, k))}
        IN /\ last.exc = "none"
           /\ last.ret[1] = Cardinality(distinct(last.args[1]) \cap distinct(last.args[2])
                                        \cap distinct(last.args[3]))
           /\ last.ret[2] = Cardinality(distinct(last.args[3]))
           /\ 0 <= last.ret[1]
           /\ last.ret[1] <= last.ret[2]
           /\ last.unchanged
====
